---------------------------- MODULE Spec2Model ----------------------------
(***************************************************************************)
(* Agent registry / factory and the uniform agent contract of the          *)
(* AI-Agent-Ecosystem repository.                                          *)
(*                                                                         *)
(* Objects are modelled as Python objects are: an agent is its instance    *)
(* dictionary (a function from attribute names to values) plus the name    *)
(* of its class; dictionaries are functions, lists are sequences.          *)
(* Floating point quantities computed from integer inputs are kept as      *)
(* exact fractions [n, d] with d > 0.                                      *)
(***************************************************************************)
EXTENDS Integers, Sequences, FiniteSets, TLC

VARIABLES
    registered_agents,  \* AgentFactory.registered_agents : tag -> class
    heap,               \* every agent instance constructed so far: its class, its
                        \* instance dictionary, the list object that is its log
    init_log,           \* per instance: the results of its initialize() calls
    handed,             \* instances handed back by the factory
    now,                \* the clock read by datetime.utcnow()
    ret,                \* the last operation: its arguments and its outcome
    last_registered,    \* history: per tag, the class of the latest register_agent
    uptime_seen,        \* history: per instance, the uptimes its latest two monitor() calls gave
    calls,              \* the receive_message invocations of the last operation
    running,            \* the coroutines started and not yet run to their end
    optimized           \* history: per instance, the optimize_roi tasks its execute has returned from

vars ==
    <<registered_agents, heap, init_log, handed, now, ret, last_registered, uptime_seen, calls,
      running, optimized>>

-----------------------------------------------------------------------------
(* Bounds of the model *)

MaxAgents == 1      \* instances built in the specification of the agent contract
MaxBuilt == 1       \* instances built in the specification of the factory
MaxTime == 1        \* clock ticks
MaxMetrics == 3     \* entries of a metric log
MaxClockMetrics == 1 \* entries of a metric log in the specification of the clock
MaxHandled == 2     \* entries of a metric log in the specification of the handlers
MaxOverrides == 2   \* entries of a specialization
MaxPeerMetrics == 2 \* entries of a metric log in the specifications of the whole contract
MaxInits == 2       \* initialize() calls on one instance
MaxRequests == 1    \* runs of initialize_ecosystem
MaxMarketMetrics == 4 \* entries of a metric log in the specification of the marketplace agent
MaxCalls == 2       \* execute calls started as concurrent tasks
MaxCreations == 1   \* create_agent calls under way or ended
MaxLiveRequests == 2 \* requests served, the startup included
MaxRequestMetrics == 2 \* entries of a metric log in the specification of the requests
MaxLaunchMetrics == 2 \* entries of a metric log in the specification of the launch agent
MaxTracked == 6     \* entries of a user's completed_steps

-----------------------------------------------------------------------------
(* Dictionaries *)

EmptyDict == <<>>

\* dict.get(k, default)
DictGet(d, k, default) == IF k \in DOMAIN d THEN d[k] ELSE default

\* d[k] = v on a dictionary
DictSet(d, k, v) == [x \in (DOMAIN d) \cup {k} |-> IF x = k THEN v ELSE d[x]]

(* Exact fractions standing for the floats the code computes *)

Rat(n, d) == [n |-> n, d |-> d]

RatOfInt(i) == Rat(i, 1)

RatLess(a, b) == a.n * b.d < b.n * a.d

RatEq(a, b) == a.n * b.d = b.n * a.d

-----------------------------------------------------------------------------
(* Classes *)

RegisteredClasses == {"ROIOptimizationAgent", "MarketplaceManagerAgent", "AnalyticsAgent"}

UnregisteredClasses ==
    {"LaunchStrategistAgent", "InfluencerOutreachAgent", "DataPrivacyAgent",
     "RevenueOptimizerAgent", "CommunityEngagementAgent", "ContentCreatorAgent",
     "FeedbackManagerAgent", "UserOnboardingAgent"}

\* every concrete agent class of the repository
ConcreteClasses == RegisteredClasses \cup UnregisteredClasses

\* a BaseAgent subclass whose initialize() reports failure: the abstract
\* contract `initialize() -> bool` admits it, register_agent accepts it
FailingClass == "FailingInitAgent"

\* the BaseAgent subclass of the test suite: initialize() succeeds, execute
\* answers success to every task, monitor() answers healthy
TestClass == "TestAgent"

Classes == ConcreteClasses \cup {FailingClass, TestClass}

\* attributes every instance finds on its class (the methods of BaseAgent)
ClassAttrs ==
    {"initialize", "execute", "monitor", "record_metric", "report_metrics",
     "collaborate", "receive_message", "optimize"}

-----------------------------------------------------------------------------
(* Construction: __init__ of each class *)

\* BaseAgent.__init__
BaseInit(name, config, t) ==
    [name |-> name,
     config |-> config,
     created_at |-> t,
     last_active |-> t,
     status |-> "initialized",
     logger |-> [logger |-> name],
     metrics |-> <<>>]

DefaultTargetRoi == Rat(15, 100)
DefaultCommissionRate == Rat(10, 100)

\* ROIOptimizationAgent.__init__
ROIInit(name, config, t) ==
    DictSet(DictSet(BaseInit(name, config, t),
                    "target_roi", DictGet(config, "target_roi", DefaultTargetRoi)),
            "metrics", <<>>)

\* MarketplaceManagerAgent.__init__
MarketplaceInit(name, config, t) ==
    DictSet(DictSet(BaseInit(name, config, t),
                    "commission_rate", DictGet(config, "commission_rate", DefaultCommissionRate)),
            "metrics", <<>>)

\* AnalyticsAgent.__init__
AnalyticsInit(name, config, t) ==
    DictSet(DictSet(BaseInit(name, config, t),
                    "metrics_window", DictGet(config, "metrics_window", "24h")),
            "metrics_data", EmptyDict)

\* agent_class(name=name, config=config): the instance dictionary after __init__
Construct(cls, name, config, t) ==
    CASE cls = "ROIOptimizationAgent" -> ROIInit(name, config, t)
      [] cls = "MarketplaceManagerAgent" -> MarketplaceInit(name, config, t)
      [] cls = "AnalyticsAgent" -> AnalyticsInit(name, config, t)
      [] OTHER -> BaseInit(name, config, t)


-----------------------------------------------------------------------------
(* initialize() of each class: the instance dictionary it leaves and the     *)
(* boolean it returns                                                        *)

Pending(tasks) == [status |-> "pending", tasks |-> tasks]

\* LaunchStrategistAgent.initialize
LaunchInitialize(d) ==
    DictSet(DictSet(d, "launch_phases",
        [pre_launch |-> Pending(<<"create_landing_page", "prepare_social_media",
                                  "setup_analytics", "prepare_email_campaigns">>),
         launch_day |-> Pending(<<"publish_announcement", "activate_social_campaigns",
                                  "monitor_metrics", "engage_early_users">>),
         post_launch |-> Pending(<<"collect_feedback", "optimize_conversion",
                                   "scale_marketing", "analyze_performance">>)]),
        "current_phase", "pre_launch")

\* InfluencerOutreachAgent.initialize
InfluencerInitialize(d) ==
    DictSet(DictSet(DictSet(DictSet(d, "influencer_tiers",
        [nano |-> [max_budget |-> 500], micro |-> [max_budget |-> 2000],
         mid |-> [max_budget |-> 10000], macro |-> [max_budget |-> 50000]]),
        "active_campaigns", EmptyDict),
        "influencer_database", EmptyDict),
        "campaign_metrics", EmptyDict)

\* DataPrivacyAgent.initialize
PrivacyInitialize(d) ==
    DictSet(DictSet(DictSet(DictSet(d, "privacy_policies",
        [data_retention |-> [personal_data |-> 90, usage_data |-> 365, logs |-> 30]]),
        "compliance_frameworks",
        [gdpr |-> [enabled |-> TRUE,
                   requirements |-> <<"data_portability", "right_to_erasure", "consent_management">>],
         ccpa |-> [enabled |-> TRUE,
                   requirements |-> <<"data_disclosure", "opt_out_rights", "data_deletion">>],
         hipaa |-> [enabled |-> FALSE,
                    requirements |-> <<"phi_protection", "audit_trails", "access_controls">>]]),
        "privacy_metrics", EmptyDict),
        "audit_logs", <<>>)

\* RevenueOptimizerAgent.initialize
RevenueInitialize(d) ==
    DictSet(DictSet(DictSet(d, "revenue_streams",
        [subscriptions |-> [metrics |-> EmptyDict],
         marketplace |-> [metrics |-> EmptyDict],
         api_usage |-> [metrics |-> EmptyDict]]),
        "revenue_targets", [daily |-> 50, weekly |-> 350, monthly |-> 1500]),
        "optimization_history", <<>>)

\* CommunityEngagementAgent.initialize
CommunityInitialize(d) ==
    DictSet(DictSet(DictSet(d, "platforms",
        [discord |-> [status |-> "active"], reddit |-> [status |-> "active"],
         twitter |-> [status |-> "active"]]),
        "engagement_metrics",
        [response_time |-> <<>>, satisfaction_scores |-> <<>>, daily_interactions |-> EmptyDict]),
        "engagement_queue", <<>>)

\* ContentCreatorAgent.initialize
ContentInitialize(d) ==
    DictSet(DictSet(DictSet(d, "content_types",
        [blog_post |-> [min_words |-> 800, max_words |-> 2000],
         social_media |-> [platforms |-> <<"twitter", "linkedin", "facebook">>],
         email_campaign |-> [types |-> <<"welcome", "newsletter", "promotional">>]]),
        "content_calendar", EmptyDict),
        "content_metrics", EmptyDict)

\* FeedbackManagerAgent.initialize
FeedbackInitialize(d) ==
    DictSet(DictSet(DictSet(DictSet(d, "feedback_categories",
        [bug_report |-> [required_fields |-> <<"description", "steps_to_reproduce">>],
         feature_request |-> [required_fields |-> <<"description", "use_case">>],
         general_feedback |-> [required_fields |-> <<"description">>],
         satisfaction_survey |-> [required_fields |-> <<"rating", "comments">>]]),
        "feedback_database", EmptyDict),
        "sentiment_metrics", EmptyDict),
        "improvement_suggestions", <<>>)

\* UserOnboardingAgent.initialize
OnboardingInitialize(d) ==
    DictSet(DictSet(DictSet(d, "onboarding_flows",
        [default |-> [steps |-> <<"welcome", "feature_overview", "first_agent",
                                  "marketplace_intro", "support_resources">>,
                      completion_reward |-> "premium_trial"],
         developer |-> [steps |-> <<"welcome", "api_overview", "sdk_setup",
                                    "first_integration", "documentation">>,
                        completion_reward |-> "api_credits"],
         enterprise |-> [steps |-> <<"welcome", "enterprise_features", "team_setup",
                                     "security_overview", "support_channels">>,
                         completion_reward |-> "consultation"]]),
        "user_progress", EmptyDict),
        "conversion_metrics", EmptyDict)

\* mutant: initialize() moves the agent to status "running"
InitializeRunning(cls, d) == [dict |-> DictSet(d, "status", "running"), ok |-> TRUE]

\* agent.initialize(): [dict |-> the instance dictionary afterwards, ok |-> its result]
Initialize(cls, d) ==
    CASE cls \in RegisteredClasses -> [dict |-> d, ok |-> TRUE]
      [] cls = "LaunchStrategistAgent" -> [dict |-> LaunchInitialize(d), ok |-> TRUE]
      [] cls = "InfluencerOutreachAgent" -> [dict |-> InfluencerInitialize(d), ok |-> TRUE]
      [] cls = "DataPrivacyAgent" -> [dict |-> PrivacyInitialize(d), ok |-> TRUE]
      [] cls = "RevenueOptimizerAgent" -> [dict |-> RevenueInitialize(d), ok |-> TRUE]
      [] cls = "CommunityEngagementAgent" -> [dict |-> CommunityInitialize(d), ok |-> TRUE]
      [] cls = "ContentCreatorAgent" -> [dict |-> ContentInitialize(d), ok |-> TRUE]
      [] cls = "FeedbackManagerAgent" -> [dict |-> FeedbackInitialize(d), ok |-> TRUE]
      [] cls = "UserOnboardingAgent" -> [dict |-> OnboardingInitialize(d), ok |-> TRUE]
      [] cls = TestClass -> [dict |-> d, ok |-> TRUE]
      [] OTHER -> [dict |-> d, ok |-> FALSE]

-----------------------------------------------------------------------------
(* AgentFactory *)

DefaultRegistry ==
    [roi_optimization |-> "ROIOptimizationAgent",
     marketplace_manager |-> "MarketplaceManagerAgent",
     analytics |-> "AnalyticsAgent"]

\* mutant: the first registration of a tag is kept
RegisterKeepFirst(reg, agent_type, agent_class) ==
    IF agent_type \in DOMAIN reg THEN reg ELSE DictSet(reg, agent_type, agent_class)

\* mutant: the registry is rebuilt around the new entry
RegisterAgentOnly(reg, agent_type, agent_class) == [x \in {agent_type} |-> agent_class]

\* AgentFactory.register_agent: self.registered_agents[agent_type] = agent_class
RegisterAgent(reg, agent_type, agent_class) == DictSet(reg, agent_type, agent_class)

\* mutant: only the tags of the default registrations are listed
GetDefaultAgentTypes(reg) == DOMAIN DefaultRegistry

\* AgentFactory.get_available_agent_types: list(self.registered_agents.keys()),
\* a list that holds every key once, taken as the set of its elements
GetAvailableAgentTypes(reg) == DOMAIN reg

Instance(cls, d, inits) == [cls |-> cls, dict |-> d, inits |-> inits]

Raise(exc, msg, constructed) ==
    [kind |-> "raise", exc |-> exc, msg |-> msg, constructed |-> constructed]

\* mutant: the instance is built before the tag is looked up
CreateAgentConstructFirst(reg, agent_type, name, config, t) ==
    IF agent_type \notin DOMAIN reg
    THEN Raise("ValueError", <<"Unknown agent type: ", agent_type>>,
               <<Instance("ROIOptimizationAgent", BaseInit(name, config, t), <<>>)>>)
    ELSE LET cls == reg[agent_type]
             r == Initialize(cls, Construct(cls, name, config, t))
         IN  IF ~r.ok
             THEN Raise("RuntimeError", <<"Failed to initialize agent: ", name>>,
                        <<Instance(cls, r.dict, <<r.ok>>)>>)
             ELSE [kind |-> "return", constructed |-> <<Instance(cls, r.dict, <<r.ok>>)>>]

\* mutant: the result of initialize() is ignored
CreateAgentIgnoreInit(reg, agent_type, name, config, t) ==
    IF agent_type \notin DOMAIN reg
    THEN Raise("ValueError", <<"Unknown agent type: ", agent_type>>, <<>>)
    ELSE LET cls == reg[agent_type]
             r == Initialize(cls, Construct(cls, name, config, t))
         IN  [kind |-> "return", constructed |-> <<Instance(cls, r.dict, <<r.ok>>)>>]

\* mutant: initialize() is never awaited
CreateAgentNoInit(reg, agent_type, name, config, t) ==
    IF agent_type \notin DOMAIN reg
    THEN Raise("ValueError", <<"Unknown agent type: ", agent_type>>, <<>>)
    ELSE LET cls == reg[agent_type]
         IN  [kind |-> "return",
              constructed |-> <<Instance(cls, Construct(cls, name, config, t), <<>>)>>]

\* AgentFactory.create_agent at clock t: what it returns or raises, and the
\* instance it constructed on the way (with the results of the initialize()
\* calls made on it)
CreateAgent(reg, agent_type, name, config, t) ==
    IF agent_type \notin DOMAIN reg
    THEN Raise("ValueError", <<"Unknown agent type: ", agent_type>>, <<>>)
    ELSE LET cls == reg[agent_type]
             r == Initialize(cls, Construct(cls, name, config, t))
         IN  IF ~r.ok
             THEN Raise("RuntimeError", <<"Failed to initialize agent: ", name>>,
                        <<Instance(cls, r.dict, <<r.ok>>)>>)
             ELSE [kind |-> "return", constructed |-> <<Instance(cls, r.dict, <<r.ok>>)>>]

\* hasattr(agent, key): instance attributes, then the attributes of the class
HasAttr(d, key) == key \in (DOMAIN d) \cup ClassAttrs

\* mutant: setattr without the hasattr test
ApplyOneUnchecked(d, key, value) == DictSet(d, key, value)

\* one round of the specialization loop: if hasattr(...): setattr(...)
ApplyOne(d, key, value) == IF HasAttr(d, key) THEN DictSet(d, key, value) ELSE d

RECURSIVE ApplySpecialization(_, _)
\* the loop `for key, value in specialization.items()`; items in dict order
ApplySpecialization(d, items) ==
    IF items = <<>> THEN d
    ELSE ApplySpecialization(ApplyOne(d, Head(items)[1], Head(items)[2]), Tail(items))

-----------------------------------------------------------------------------
(* BaseAgent: metrics *)

\* the entry record_metric builds
MetricEntry(name, value, t) == [name |-> name, value |-> value, timestamp |-> t]

\* mutant: the entry is put at the front of the log
RecordMetricPrepend(d, name, value, t) ==
    DictSet(d, "metrics", <<MetricEntry(name, value, t)>> \o d["metrics"])

\* mutant: the log keeps only its newest entry
RecordMetricNewestOnly(d, name, value, t) ==
    DictSet(d, "metrics", <<MetricEntry(name, value, t)>>)

\* BaseAgent.record_metric: self.metrics.append(metric)
RecordMetric(d, name, value, t) ==
    DictSet(d, "metrics", Append(d["metrics"], MetricEntry(name, value, t)))

\* mutant: the operands of the subtraction are swapped
UptimeSwapped(d, t) == d["created_at"] - t

\* (datetime.utcnow() - self.created_at).total_seconds()
Uptime(d, t) == t - d["created_at"]

\* BaseAgent.report_metrics
ReportMetrics(d, t) ==
    [name |-> d["name"],
     status |-> d["status"],
     last_active |-> d["last_active"],
     uptime |-> Uptime(d, t),
     metrics |-> d["metrics"]]

-----------------------------------------------------------------------------
(* execute: the dispatch on task["type"] of every class, and the handlers of  *)
(* the three registered classes                                              *)

None == "None"

Return(value, d) == [kind |-> "return", value |-> value, dict |-> d]

RaiseIn(exc, msg, d) == [kind |-> "raise", exc |-> exc, msg |-> msg, dict |-> d]

\* the task types each class dispatches to a handler
Handles(cls) ==
    CASE cls = "ROIOptimizationAgent" -> {"optimize_roi"}
      [] cls = "MarketplaceManagerAgent" -> {"analyze_marketplace", "get_marketplace_stats"}
      [] cls = "AnalyticsAgent" -> {"generate_report", "analyze_data"}
      [] cls = "LaunchStrategistAgent" -> {"phase_transition", "execute_task", "update_strategy"}
      [] cls = "InfluencerOutreachAgent" -> {"identify_influencers", "create_campaign", "track_performance"}
      [] cls = "DataPrivacyAgent" -> {"privacy_check", "handle_request", "audit_access"}
      [] cls = "RevenueOptimizerAgent" -> {"optimize_pricing", "analyze_revenue", "implement_strategy"}
      [] cls = "CommunityEngagementAgent" -> {"respond_to_user", "monitor_sentiment", "create_event"}
      [] cls = "ContentCreatorAgent" -> {"create_content", "optimize_content", "schedule_content"}
      [] cls = "FeedbackManagerAgent" -> {"collect_feedback", "analyze_feedback", "generate_report"}
      [] cls = "UserOnboardingAgent" -> {"start_onboarding", "track_progress", "optimize_flow"}
      [] OTHER -> {}

\* mutant: an unrecognized type is a silent no-op
UnknownTaskTypeSilent(cls, task_type, d) == Return([status |-> "success"], d)

\* mutant: the failure is recorded in the metric log before it is raised
UnknownTaskTypeLogged(cls, task_type, d) ==
    RaiseIn("ValueError", <<"Unknown task type: ", task_type>>,
            RecordMetric(d, "unknown_task", 1, d["created_at"]))

\* the last branch of every execute: the three registered classes raise,
\* the others return an error result
UnknownTaskType(cls, task_type, d) ==
    IF cls \in RegisteredClasses
    THEN RaiseIn("ValueError", <<"Unknown task type: ", task_type>>, d)
    ELSE Return([status |-> "error", message |-> "Unknown task type"], d)

\* mutant: the ROI is taken relative to the revenue
CurrentRoiOverRevenue(current_revenue, current_costs) ==
    IF current_costs > 0 /\ current_revenue > 0
    THEN Rat(current_revenue - current_costs, current_revenue)
    ELSE RatOfInt(0)

\* (current_revenue - current_costs) / current_costs if current_costs > 0 else 0
CurrentRoi(current_revenue, current_costs) ==
    IF current_costs > 0
    THEN Rat(current_revenue - current_costs, current_costs)
    ELSE RatOfInt(0)

\* (target_roi + 1) * current_costs - current_revenue
RevenueGap(target_roi, current_revenue, current_costs) ==
    Rat((target_roi.n + target_roi.d) * current_costs - current_revenue * target_roi.d,
        target_roi.d)

\* mutant: the target of the task data is ignored
TargetRoiConfigured(d, data) == d["target_roi"]

\* data.get("target_roi", self.target_roi)
TargetRoi(d, data) == DictGet(data, "target_roi", d["target_roi"])

\* ROIOptimizationAgent._optimize_roi
OptimizeRoi(d, data, t) ==
    LET current_revenue == DictGet(data, "current_revenue", 0)
        current_costs == DictGet(data, "current_costs", 0)
        target_roi == TargetRoi(d, data)
        current_roi == CurrentRoi(current_revenue, current_costs)
        recommendations ==
            IF RatLess(current_roi, target_roi)
            THEN <<[text |-> "Increase revenue to reach target ROI",
                    revenue_gap |-> RevenueGap(target_roi, current_revenue, current_costs)],
                   "Explore new revenue streams or optimize pricing",
                   "Review and optimize marketing spend">>
            ELSE <<>>
        d1 == RecordMetric(d, "current_roi", current_roi, t)
        d2 == RecordMetric(d1, "target_roi", target_roi, t)
    IN  Return([current_roi |-> current_roi,
                target_roi |-> target_roi,
                revenue |-> current_revenue,
                costs |-> current_costs,
                recommendations |-> recommendations,
                status |-> "success"], d2)

\* a product of an integer and a fraction
RatScale(i, r) == Rat(i * r.n, r.d)

\* MarketplaceManagerAgent._analyze_marketplace
AnalyzeMarketplace(d, data, t) ==
    LET active_listings == DictGet(data, "active_listings", 0)
        total_transactions == DictGet(data, "total_transactions", 0)
        average_price == DictGet(data, "average_price", 0)
        conversion_rate ==
            IF active_listings > 0 THEN Rat(total_transactions, active_listings)
            ELSE RatOfInt(0)
        revenue == total_transactions * average_price
        commission_revenue == RatScale(revenue, d["commission_rate"])
        insights ==
            IF RatLess(conversion_rate, Rat(3, 10))
            THEN <<"Low conversion rate detected",
                   "Consider optimizing listing visibility",
                   "Review pricing strategies">>
            ELSE <<>>
        d1 == RecordMetric(d, "conversion_rate", conversion_rate, t)
        d2 == RecordMetric(d1, "commission_revenue", commission_revenue, t)
    IN  Return([active_listings |-> active_listings,
                total_transactions |-> total_transactions,
                average_price |-> average_price,
                conversion_rate |-> conversion_rate,
                commission_revenue |-> commission_revenue,
                insights |-> insights,
                status |-> "success"], d2)

\* MarketplaceManagerAgent._get_marketplace_stats (simulated data)
GetMarketplaceStats(d) ==
    Return([listings_count |-> 100,
            transactions_count |-> 50,
            average_price |-> Rat(19999, 100)], d)

\* the simulated figures of AnalyticsAgent._analyze_revenue, _analyze_user_growth
\* and _analyze_agent_performance
SimulatedMetric(m) ==
    CASE m = "revenue" -> [total_revenue |-> 150000, growth_rate |-> Rat(15, 100)]
      [] m = "user_growth" -> [total_users |-> 5000, growth_rate |-> Rat(8, 100)]
      [] OTHER -> [total_agents |-> 10, active_agents |-> 8]

\* AnalyticsAgent._generate_report
GenerateReport(d, data, t) ==
    LET timeframe == DictGet(data, "timeframe", "last_24h")
        metrics == DictGet(data, "metrics", {})
        known == metrics \cap {"revenue", "user_growth", "agent_performance"}
    IN  Return([timestamp |-> t,
                timeframe |-> timeframe,
                metrics |-> [m \in known |-> SimulatedMetric(m)]],
               RecordMetric(d, "report_generated", 1, t))

\* AnalyticsAgent._analyze_data; the branch of the ROI trend divides by target_roi
AnalyzeData(d, data, t) ==
    LET roi_data == DictGet(data, "roi_data", EmptyDict)
        marketplace_data == DictGet(data, "marketplace_data", EmptyDict)
        current_roi == DictGet(roi_data, "current_roi", RatOfInt(0))
        target_roi == DictGet(roi_data, "target_roi", RatOfInt(0))
        below == roi_data # EmptyDict /\ RatLess(current_roi, target_roi)
        listings == DictGet(marketplace_data, "listings_count", 0)
        transactions == DictGet(marketplace_data, "transactions_count", 0)
        roi_insight ==
            IF below
            THEN <<[text |-> "ROI is below target",
                    gap_percentage |->
                        Rat(100 * (target_roi.n * current_roi.d - current_roi.n * target_roi.d)
                                * target_roi.d,
                            target_roi.d * current_roi.d * target_roi.n)]>>
            ELSE <<>>
        market_insight ==
            IF marketplace_data # EmptyDict /\ listings > 0
            THEN <<[text |-> "Marketplace conversion rate",
                    conversion_rate |-> Rat(100 * transactions, listings)]>>
            ELSE <<>>
    IN  IF below /\ target_roi.n = 0
        THEN RaiseIn("ZeroDivisionError", <<"float division by zero">>, d)
        ELSE Return([timestamp |-> t,
                     insights |-> roi_insight \o market_insight,
                     status |-> "success"],
                    RecordMetric(d, "data_analyzed", 1, t))

\* the members of a list
Elements(l) == {l[k] : k \in DOMAIN l}

\* LaunchStrategistAgent._transition_phase.  all(task["status"] == "completed"
\* for task in current_tasks) subscripts the first task of the current phase,
\* which is a string (initialize, lines 10-38); over no task at all it is true
TransitionPhase(d, target_phase) ==
    LET phases == d["launch_phases"]
        current_tasks == phases[d["current_phase"]].tasks
    IN  IF target_phase \notin DOMAIN phases
        THEN Return([status |-> "error", message |-> "Invalid phase: " \o target_phase], d)
        ELSE IF current_tasks # <<>>
        THEN RaiseIn("TypeError", <<"string indices must be integers">>, d)
        ELSE Return([status |-> "success",
                     message |-> "Transitioned to " \o target_phase,
                     new_tasks |-> phases[target_phase].tasks],
                    DictSet(d, "current_phase", target_phase))

\* LaunchStrategistAgent._execute_launch_task and _task_execution_logic: the
\* task is looked up in the list of the current phase, run, and then
\* tasks[task_name]["status"] = "completed" subscripts that list with a string
ExecuteLaunchTask(d, task_name, t) ==
    LET tasks == d["launch_phases"][d["current_phase"]].tasks
    IN  IF task_name \notin Elements(tasks)
        THEN Return([status |-> "error", message |-> "Task not found: " \o task_name], d)
        ELSE RaiseIn("TypeError", <<"list indices must be integers or slices, not str">>, d)

\* LaunchStrategistAgent._update_strategy: tasks[task].update(task_updates)
\* subscripts the list of a phase with a string as soon as an update names a
\* task of that phase
UpdateStrategy(d, updates) ==
    LET phases == d["launch_phases"]
        named == \E phase \in (DOMAIN updates) \cap (DOMAIN phases) :
                     \E task \in DOMAIN updates[phase] :
                         task \in Elements(phases[phase].tasks)
    IN  IF named
        THEN RaiseIn("TypeError", <<"list indices must be integers or slices, not str">>, d)
        ELSE Return([status |-> "success", modified_tasks |-> <<>>], d)

\* list.index(x): the first position of x, counted from 1
FirstIndex(l, x) ==
    CHOOSE k \in DOMAIN l : l[k] = x /\ \A j \in DOMAIN l : l[j] = x => k <= j

\* UserOnboardingAgent._prepare_step with _generate_step_content and
\* _get_step_actions
PrepareStep(step) ==
    [step |-> step,
     content |-> [title |-> step, content |-> "Content for " \o step],
     actions |-> <<"complete", "skip", "get_help">>]

\* UserOnboardingAgent._complete_onboarding with _grant_reward and
\* _generate_next_steps
CompleteOnboarding(d, user_id) ==
    LET progress == d["user_progress"][user_id]
        flow == d["onboarding_flows"][progress.flow_type]
    IN  [status |-> "completed",
         reward |-> [type |-> flow.completion_reward, granted |-> TRUE],
         next_steps |-> <<[type |-> "create_agent", priority |-> "high"],
                          [type |-> "explore_marketplace", priority |-> "medium"]>>]

\* UserOnboardingAgent._start_onboarding
StartOnboarding(d, user_id, flow_type, t) ==
    IF flow_type \notin DOMAIN d["onboarding_flows"]
    THEN Return([status |-> "error", message |-> "Invalid flow type: " \o flow_type], d)
    ELSE LET flow == d["onboarding_flows"][flow_type]
             entry == [flow_type |-> flow_type,
                       current_step |-> flow.steps[1],
                       completed_steps |-> <<>>,
                       start_time |-> t,
                       last_activity |-> t]
         IN  Return([status |-> "success",
                     user_id |-> user_id,
                     flow_type |-> flow_type,
                     first_step |-> PrepareStep(flow.steps[1])],
                    DictSet(d, "user_progress", DictSet(d["user_progress"], user_id, entry)))

\* UserOnboardingAgent._track_progress: the current step is appended to
\* completed_steps whatever `step` is and however many steps are there already
TrackProgress(d, user_id, step, t) ==
    IF user_id \notin DOMAIN d["user_progress"]
    THEN Return([status |-> "error", message |-> "User not found"], d)
    ELSE LET progress == d["user_progress"][user_id]
             flow == d["onboarding_flows"][progress.flow_type]
         IN  IF step \notin Elements(flow.steps)
             THEN Return([status |-> "error", message |-> "Invalid step"], d)
             ELSE LET completed_steps == Append(progress.completed_steps,
                                                progress.current_step)
                      current_index == FirstIndex(flow.steps, step)
                      more == current_index < Len(flow.steps)
                      current_step == IF more THEN flow.steps[current_index + 1]
                                      ELSE progress.current_step
                      entry == [progress EXCEPT !.completed_steps = completed_steps,
                                                !.current_step = current_step,
                                                !.last_activity = t]
                      d1 == DictSet(d, "user_progress",
                                    DictSet(d["user_progress"], user_id, entry))
                  IN  Return([status |-> "success",
                              user_id |-> user_id,
                              completed_step |-> step,
                              next_step |-> IF more THEN PrepareStep(current_step)
                                            ELSE CompleteOnboarding(d1, user_id)],
                             d1)

RECURSIVE TotalTime(_, _)
\* the sum of last_activity - start_time over the users of `users`
TotalTime(progress, users) ==
    IF users = {} THEN 0
    ELSE LET u == CHOOSE x \in users : TRUE
         IN  (progress[u].last_activity - progress[u].start_time)
             + TotalTime(progress, users \ {u})

\* UserOnboardingAgent._optimize_flow with _analyze_flow_metrics,
\* _calculate_average_completion_time and _generate_flow_optimizations;
\* _apply_flow_optimizations changes nothing (_optimize_step is `pass`)
OptimizeFlow(d, flow_type) ==
    IF flow_type \notin DOMAIN d["onboarding_flows"]
    THEN Return([status |-> "error", message |-> "Invalid flow type: " \o flow_type], d)
    ELSE LET progress == d["user_progress"]
             steps == d["onboarding_flows"][flow_type].steps
             users == {u \in DOMAIN progress : progress[u].flow_type = flow_type}
             rate(step) ==
                 IF users = {} THEN RatOfInt(0)
                 ELSE Rat(Cardinality({u \in users :
                                          step \in Elements(progress[u].completed_steps)}),
                          Cardinality(users))
             completed_users ==
                 {u \in users : Len(progress[u].completed_steps) = Len(steps)}
             low == SelectSeq(steps, LAMBDA x : RatLess(rate(x), Rat(7, 10)))
             average_time ==
                 IF completed_users = {} THEN RatOfInt(0)
                 ELSE Rat(TotalTime(progress, completed_users), Cardinality(completed_users))
         IN  Return([status |-> "success",
                     flow_type |-> flow_type,
                     metrics |-> [step_completion |-> [step \in Elements(steps) |-> rate(step)],
                                  average_time |-> average_time],
                     optimizations |->
                         [changes |-> [k \in DOMAIN low |->
                                          [type |-> "step_optimization", step |-> low[k],
                                           suggestion |-> "simplify_content"]]]],
                    d)

\* the classes whose handlers are run by Execute
HandlerClasses == RegisteredClasses \cup {"LaunchStrategistAgent", "UserOnboardingAgent"}

\* task.get("type") for the registered classes; task["type"] elsewhere
Execute(cls, d, task, t) ==
    LET data == DictGet(task, "data", EmptyDict)
        task_type == DictGet(task, "type", None)
    IN  IF cls = TestClass
        THEN Return([status |-> "success", task |-> task], d)
        ELSE IF cls \notin RegisteredClasses /\ "type" \notin DOMAIN task
        THEN RaiseIn("KeyError", <<"type">>, d)
        ELSE CASE cls = "ROIOptimizationAgent" /\ task_type = "optimize_roi" ->
                    OptimizeRoi(d, data, t)
               [] cls = "MarketplaceManagerAgent" /\ task_type = "analyze_marketplace" ->
                    AnalyzeMarketplace(d, data, t)
               [] cls = "MarketplaceManagerAgent" /\ task_type = "get_marketplace_stats" ->
                    GetMarketplaceStats(d)
               [] cls = "AnalyticsAgent" /\ task_type = "generate_report" ->
                    GenerateReport(d, data, t)
               [] cls = "AnalyticsAgent" /\ task_type = "analyze_data" ->
                    AnalyzeData(d, data, t)
               [] cls = "LaunchStrategistAgent" /\ task_type = "phase_transition" ->
                    TransitionPhase(d, task["target_phase"])
               [] cls = "LaunchStrategistAgent" /\ task_type = "execute_task" ->
                    ExecuteLaunchTask(d, task["task_name"], t)
               [] cls = "LaunchStrategistAgent" /\ task_type = "update_strategy" ->
                    UpdateStrategy(d, task["updates"])
               [] cls = "UserOnboardingAgent" /\ task_type = "start_onboarding" ->
                    StartOnboarding(d, task["user_id"], DictGet(task, "flow_type", "default"), t)
               [] cls = "UserOnboardingAgent" /\ task_type = "track_progress" ->
                    TrackProgress(d, task["user_id"], task["step"], t)
               [] cls = "UserOnboardingAgent" /\ task_type = "optimize_flow" ->
                    OptimizeFlow(d, task["flow_type"])
               [] OTHER -> UnknownTaskType(cls, task_type, d)

-----------------------------------------------------------------------------
-----------------------------------------------------------------------------
(* Coroutines.  An execute call started as a task of the event loop is a     *)
(* frame: the agent, the task, the line it is to run next, its locals and    *)
(* how it ended.  The event loop runs one frame at a time, from where the    *)
(* frame stands to the next await that hands control back or to its end.     *)

\* the coroutine functions whose body waits on something that is not itself a
\* coroutine function of the repository (a Future, a sleep, I/O): there is none
SuspendingCoroutines == {}

\* mutant: every await hands control back to the event loop
AwaitSuspendsAlways(callee) == TRUE

\* whether `await self.callee(...)` hands control back to the event loop before
\* it completes: a coroutine that waits on nothing runs to its end inside the
\* await, as record_metric does
AwaitSuspends(callee) == callee \in SuspendingCoroutines

Frame(agent, task, pc, locals, kind, exc, msg) ==
    [agent |-> agent, task |-> task, pc |-> pc, locals |-> locals,
     kind |-> kind, exc |-> exc, msg |-> msg]

\* a frame's run stopped at an await, to go on at line pc
Suspended(d, locals, pc) ==
    [dict |-> d, pc |-> pc, locals |-> locals, kind |-> "pending", exc |-> None, msg |-> <<>>]

\* a frame's run ended as `out` did
Finished(out) ==
    [dict |-> out.dict, pc |-> "ended",
     locals |-> IF out.kind = "return" THEN out.value ELSE EmptyDict,
     kind |-> out.kind,
     exc |-> IF out.kind = "raise" THEN out.exc ELSE None,
     msg |-> IF out.kind = "raise" THEN out.msg ELSE <<>>]

RECURSIVE OptimizeRoiFrom(_, _, _, _)
\* ROIOptimizationAgent._optimize_roi from line pc on, its locals being those
\* of line 48: the two awaited record_metric calls, then the return
OptimizeRoiFrom(d, locals, pc, t) ==
    LET awaited(d1, next) ==
            IF AwaitSuspends("record_metric") THEN Suspended(d1, locals, next)
            ELSE OptimizeRoiFrom(d1, locals, next, t)
    IN  CASE pc = "line_51" ->
                awaited(RecordMetric(d, "current_roi", locals.current_roi, t), "line_52")
          [] pc = "line_52" ->
                awaited(RecordMetric(d, "target_roi", locals.target_roi, t), "line_54")
          [] OTHER -> Finished(Return(locals, d))

\* execute from where a frame stands; the handlers other than _optimize_roi
\* are run as a whole
ExecuteFrom(cls, d, task, pc, locals, t) ==
    IF pc # "start" THEN OptimizeRoiFrom(d, locals, pc, t)
    ELSE IF cls = "ROIOptimizationAgent" /\ DictGet(task, "type", None) = "optimize_roi"
    THEN OptimizeRoiFrom(d, OptimizeRoi(d, DictGet(task, "data", EmptyDict), t).value,
                         "line_51", t)
    ELSE Finished(Execute(cls, d, task, t))

(* monitor.  The classes whose handlers the model does not run are monitored *)
(* in the state initialize() leaves them in: their collections are the empty *)
(* ones of initialize().                                                     *)

\* number of entries of a dictionary or list
Size(c) == Cardinality(DOMAIN c)

\* BaseAgent.monitor: the common fields of a snapshot
BaseMonitor(d, t) ==
    [name |-> d["name"],
     status |-> d["status"],
     last_active |-> d["last_active"],
     uptime |-> Uptime(d, t),
     metrics |-> EmptyDict]

\* metrics["metrics"][section] = content on a snapshot of BaseMonitor
WithSection(snapshot, section, content) ==
    DictSet(snapshot, "metrics", DictSet(snapshot["metrics"], section, content))

\* ROIOptimizationAgent.monitor
ROIMonitor(d, t) ==
    Return(WithSection(BaseMonitor(d, t), "roi_tracking",
                       [target_roi |-> d["target_roi"],
                        optimization_count |-> Len(d["metrics"])]), d)

\* MarketplaceManagerAgent.monitor
MarketplaceMonitor(d, t) ==
    Return(WithSection(BaseMonitor(d, t), "marketplace",
                       [commission_rate |-> d["commission_rate"],
                        transaction_count |-> Len(d["metrics"])]), d)

\* AnalyticsAgent.monitor
AnalyticsMonitor(d, t) ==
    Return(WithSection(BaseMonitor(d, t), "analytics",
                       [metrics_window |-> d["metrics_window"],
                        metrics_count |-> Size(d["metrics_data"]),
                        last_report |-> t]), d)

\* LaunchStrategistAgent.monitor: _analyze_launch_progress reads task["status"]
\* of every task, and the tasks are strings; with no task at all it divides
\* by total_tasks = 0.  The snapshot of lines 58-63 is built only after it.
LaunchMonitor(d, t) ==
    LET phases == d["launch_phases"]
        some_task == \E p \in DOMAIN phases : phases[p].tasks # <<>>
    IN  IF some_task
        THEN RaiseIn("TypeError", <<"string indices must be integers">>, d)
        ELSE RaiseIn("ZeroDivisionError", <<"division by zero">>, d)

\* InfluencerOutreachAgent.monitor; no campaign has metrics, so the totals
\* of _calculate_roi_metrics are 0
InfluencerMonitor(d, t) ==
    LET campaigns == d["active_campaigns"]
    IN  Return([active_campaigns |-> Size(campaigns),
                campaign_status |->
                    [c \in DOMAIN campaigns |->
                        IF campaigns[c].status # "active" THEN campaigns[c].status
                        ELSE "healthy"],
                roi_metrics |-> [total_cost |-> 0, total_revenue |-> 0, overall_roi |-> 0],
                last_check |-> t], d)

\* DataPrivacyAgent.monitor
PrivacyMonitor(d, t) ==
    LET frameworks == d["compliance_frameworks"]
        logs == d["audit_logs"]
        count(kind) == Cardinality({i \in DOMAIN logs : logs[i].access_type = kind})
    IN  Return([compliance_status |->
                    [f \in {g \in DOMAIN frameworks : frameworks[g].enabled} |->
                        [compliant |-> TRUE,
                         requirements |-> frameworks[f].requirements]],
                privacy_metrics |->
                    [data_access_requests |-> count("access"),
                     deletion_requests |-> count("deletion"),
                     consent_updates |-> count("consent_update")],
                last_audit |-> t,
                last_check |-> t], d)

\* RevenueOptimizerAgent.monitor; every stream's metrics are empty, so each
\* `current`, trend and conversion rate is 0
RevenueMonitor(d, t) ==
    LET streams == d["revenue_streams"]
        targets == d["revenue_targets"]
        current_metrics ==
            [s \in DOMAIN streams |->
                [current |-> DictGet(streams[s].metrics, "current", 0),
                 trend |-> 0,
                 conversion_rate |-> DictGet(streams[s].metrics, "conversion_rate", 0)]]
        total_daily_revenue ==
            IF \A s \in DOMAIN streams : current_metrics[s].current = 0 THEN 0
            ELSE current_metrics["subscriptions"].current
                 + current_metrics["marketplace"].current
                 + current_metrics["api_usage"].current
        current(period) ==
            CASE period = "daily" -> total_daily_revenue
              [] period = "weekly" -> total_daily_revenue * 7
              [] OTHER -> total_daily_revenue * 30
    IN  Return([current_metrics |-> current_metrics,
                performance |->
                    [p \in DOMAIN targets |->
                        [target |-> targets[p],
                         current |-> current(p),
                         status |-> IF current(p) >= targets[p] THEN "on_track"
                                    ELSE "needs_attention"]],
                last_check |-> t], d)

\* CommunityEngagementAgent.monitor
CommunityMonitor(d, t) ==
    LET platforms == d["platforms"]
        m == d["engagement_metrics"]
    IN  Return([platform_health |->
                    [p \in DOMAIN platforms |->
                        IF platforms[p].status = "active" THEN "healthy"
                        ELSE "needs_attention"],
                engagement_stats |->
                    [average_response_time |-> 0,
                     satisfaction_score |-> 0,
                     daily_interactions |-> m.daily_interactions],
                queue_size |-> Len(d["engagement_queue"]),
                last_check |-> t], d)

\* ContentCreatorAgent.monitor
ContentMonitor(d, t) ==
    LET scheduled_content == Size(d["content_calendar"])
    IN  Return([content_metrics |->
                    [c \in DOMAIN d["content_metrics"] |-> d["content_metrics"][c]],
                pipeline_status |->
                    IF scheduled_content > 10 THEN "healthy"
                    ELSE IF scheduled_content > 5 THEN "moderate"
                    ELSE "needs_attention",
                last_check |-> t], d)

\* FeedbackManagerAgent.monitor
FeedbackMonitor(d, t) ==
    LET db == d["feedback_database"]
    IN  Return([trends |->
                    [c \in DOMAIN d["feedback_categories"] |->
                        [count |-> Cardinality({f \in DOMAIN db : db[f].type = c}),
                         common_topics |-> <<"performance", "usability", "features">>]],
                sentiment |->
                    IF d["sentiment_metrics"] = EmptyDict
                    THEN [positive |-> 0, neutral |-> 0, negative |-> 0]
                    ELSE d["sentiment_metrics"],
                active_feedback_count |-> Size(db),
                last_check |-> t], d)

\* UserOnboardingAgent.monitor
OnboardingMonitor(d, t) ==
    LET flows == d["onboarding_flows"]
        progress == d["user_progress"]
        users(f) == {u \in DOMAIN progress : progress[u].flow_type = f}
        completed(f) ==
            {u \in users(f) : Len(progress[u].completed_steps) = Len(flows[f].steps)}
    IN  Return([completion_rates |->
                    [f \in DOMAIN flows |->
                        IF users(f) # {}
                        THEN Rat(Cardinality(completed(f)), Cardinality(users(f)))
                        ELSE RatOfInt(0)],
                conversion_metrics |->
                    [f \in (DOMAIN flows) \cap (DOMAIN d["conversion_metrics"]) |->
                        d["conversion_metrics"][f]],
                active_users |-> Size(progress),
                last_check |-> t], d)

\* agent.monitor(): each class's own override
Monitor(cls, d, t) ==
    CASE cls = "ROIOptimizationAgent" -> ROIMonitor(d, t)
      [] cls = "MarketplaceManagerAgent" -> MarketplaceMonitor(d, t)
      [] cls = "AnalyticsAgent" -> AnalyticsMonitor(d, t)
      [] cls = "LaunchStrategistAgent" -> LaunchMonitor(d, t)
      [] cls = "InfluencerOutreachAgent" -> InfluencerMonitor(d, t)
      [] cls = "DataPrivacyAgent" -> PrivacyMonitor(d, t)
      [] cls = "RevenueOptimizerAgent" -> RevenueMonitor(d, t)
      [] cls = "CommunityEngagementAgent" -> CommunityMonitor(d, t)
      [] cls = "ContentCreatorAgent" -> ContentMonitor(d, t)
      [] cls = "FeedbackManagerAgent" -> FeedbackMonitor(d, t)
      [] cls = TestClass -> Return([status |-> "healthy"], d)
      [] OTHER -> OnboardingMonitor(d, t)

-----------------------------------------------------------------------------
(* collaborate, receive_message *)

\* BaseAgent.receive_message, which no class overrides: the acknowledgement
ReceiveMessage(d, sender, message, t) ==
    [status |-> "received", from |-> sender["name"], timestamp |-> t]

\* one invocation of receive_message on `agent` with `sender`
Invocation(agent, sender, message) ==
    [agent |-> agent, sender |-> sender, message |-> message]

\* mutant: the target is passed as the sender
CollaborateAsTarget(h, self, target_agent, message, t) ==
    [value |-> ReceiveMessage(h[target_agent].dict, h[target_agent].dict, message, t),
     calls |-> <<Invocation(target_agent, target_agent, message)>>]

\* BaseAgent.collaborate on the instances h: target_agent.receive_message(self, message)
Collaborate(h, self, target_agent, message, t) ==
    [value |-> ReceiveMessage(h[target_agent].dict, h[self].dict, message, t),
     calls |-> <<Invocation(target_agent, self, message)>>]

-----------------------------------------------------------------------------
(* The HTTP layer (main.py): initialize_ecosystem and health_check.  The     *)
(* series MetricsCollector updates are kept by prometheus_client.            *)

\* the tags of agent_classes, in the order of the loop
EcosystemTypes == <<"roi_optimization", "marketplace_manager", "analytics">>

\* the state of the loop: the registry, the instances constructed, and the
\* mapping `agents` from tags to instances
Ecosystem(registered, constructed, agents) ==
    [registered |-> registered, constructed |-> constructed, agents |-> agents]

RECURSIVE FailFastFrom(_, _, _, _, _)
\* mutant: the loop ends at the first creation that raises
FailFastFrom(k, acc, agent_classes, base, t) ==
    IF k > Len(EcosystemTypes) THEN acc
    ELSE LET agent_type == EcosystemTypes[k]
             reg == RegisterAgent(acc.registered, agent_type, agent_classes[agent_type])
             out == CreateAgent(reg, agent_type, agent_type \o "_agent", EmptyDict, t)
             built == acc.constructed \o out.constructed
         IN  IF out.kind = "return"
             THEN FailFastFrom(k + 1,
                               Ecosystem(reg, built,
                                         DictSet(acc.agents, agent_type, base + Len(built))),
                               agent_classes, base, t)
             ELSE Ecosystem(reg, built, acc.agents)

InitializeEcosystemFailFast(reg, agent_classes, base, t) ==
    FailFastFrom(1, Ecosystem(reg, <<>>, EmptyDict), agent_classes, base, t)

RECURSIVE EcosystemFrom(_, _, _, _, _)
\* the loop of initialize_ecosystem from its k-th tag on: register the class,
\* try create_agent, keep the agent when it returned, carry on when it raised
EcosystemFrom(k, acc, agent_classes, base, t) ==
    IF k > Len(EcosystemTypes) THEN acc
    ELSE LET agent_type == EcosystemTypes[k]
             reg == RegisterAgent(acc.registered, agent_type, agent_classes[agent_type])
             out == CreateAgent(reg, agent_type, agent_type \o "_agent", EmptyDict, t)
             built == acc.constructed \o out.constructed
             agents == IF out.kind = "return"
                       THEN DictSet(acc.agents, agent_type, base + Len(built))
                       ELSE acc.agents
         IN  EcosystemFrom(k + 1, Ecosystem(reg, built, agents), agent_classes, base, t)

\* initialize_ecosystem on the registry reg; the instances it constructs get
\* the identities base + 1, base + 2, ...
InitializeEcosystem(reg, agent_classes, base, t) ==
    EcosystemFrom(1, Ecosystem(reg, <<>>, EmptyDict), agent_classes, base, t)

\* the loop of health_check over `agents`, instances h: the snapshot of every
\* agent whose monitor() returns; an agent whose monitor() raises is left out
HealthStatus(agents, h, t) ==
    LET healthy == {agent_type \in DOMAIN agents :
                       Monitor(h[agents[agent_type]].cls, h[agents[agent_type]].dict, t).kind
                           = "return"}
    IN  [agent_type \in healthy |->
            Monitor(h[agents[agent_type]].cls, h[agents[agent_type]].dict, t).value]

\* mutant: the agents of the first request are kept and reported again
MetricsReportCached(agents, h, t) ==
    [agent_type \in DOMAIN agents |->
        LET first == CHOOSE i \in DOMAIN h :
                        /\ h[i].dict["name"] = h[agents[agent_type]].dict["name"]
                        /\ \A j \in DOMAIN h :
                              h[j].dict["name"] = h[i].dict["name"] => i <= j
        IN  ReportMetrics(h[first].dict, t)]

\* the loop of get_metrics over `agents`, instances h: the report_metrics() of
\* every agent
MetricsReport(agents, h, t) ==
    [agent_type \in DOMAIN agents |-> ReportMetrics(h[agents[agent_type]].dict, t)]

-----------------------------------------------------------------------------
(* State machine: one action per operation *)

Outcome(op, args, kind, exc, msg, value) ==
    [op |-> op, args |-> args, kind |-> kind, exc |-> exc, msg |-> msg, value |-> value]

Returned(op, args, value) == Outcome(op, args, "return", None, <<>>, value)

\* the outcome of an operation that ended as `out` did
Ended(op, args, out, value) ==
    IF out.kind = "return" THEN Returned(op, args, value)
    ELSE Outcome(op, args, "raise", out.exc, out.msg, None)

\* AgentFactory.__init__ and the start of the process
Init ==
    /\ registered_agents = DefaultRegistry
    /\ last_registered = DefaultRegistry
    /\ heap = <<>>
    /\ init_log = <<>>
    /\ uptime_seen = <<>>
    /\ handed = {}
    /\ calls = <<>>
    /\ running = <<>>
    /\ optimized = <<>>
    /\ now = 0
    /\ ret = Returned("__init__", EmptyDict, None)

\* mutant: one list object, held by the class, is the log of every instance
LogIdentityShared(index) == 0

\* the list object that `self.metrics = []` creates in the constructor of the
\* index-th instance: a new object at every evaluation
LogIdentity(index) == index

\* the heap once the dictionary of instance i has become d; a change to a
\* list object shows through every attribute that refers to that object
Assigned(i, d) ==
    [j \in DOMAIN heap |->
        IF j = i THEN [heap[j] EXCEPT !.dict = d]
        ELSE IF heap[j].log = heap[i].log
             THEN [heap[j] EXCEPT !.dict = DictSet(@, "metrics", d["metrics"])]
             ELSE heap[j]]

\* the latest two of the values seen, `value` being the latest
LatestTwo(seen, value) ==
    IF seen = <<>> THEN <<value>> ELSE <<seen[Len(seen)], value>>

\* the instances `constructed` enter the heap
Built(constructed) ==
    /\ heap' = heap \o [i \in DOMAIN constructed |->
                           [cls |-> constructed[i].cls, dict |-> constructed[i].dict,
                            log |-> LogIdentity(Len(heap) + i)]]
    /\ init_log' = init_log \o [i \in DOMAIN constructed |-> constructed[i].inits]
    /\ optimized' = optimized \o [i \in DOMAIN constructed |-> 0]
    /\ uptime_seen' = uptime_seen \o [i \in DOMAIN constructed |-> <<>>]

\* the instances `constructed` enter the heap and monitor() is called on
\* those of them that are in `monitored`
BuiltAndMonitored(constructed, monitored) ==
    /\ heap' = heap \o [i \in DOMAIN constructed |->
                           [cls |-> constructed[i].cls, dict |-> constructed[i].dict,
                            log |-> LogIdentity(Len(heap) + i)]]
    /\ init_log' = init_log \o [i \in DOMAIN constructed |-> constructed[i].inits]
    /\ optimized' = optimized \o [i \in DOMAIN constructed |-> 0]
    /\ uptime_seen' = uptime_seen \o
          [i \in DOMAIN constructed |->
              LET out == Monitor(constructed[i].cls, constructed[i].dict, now)
              IN  IF /\ Len(heap) + i \in monitored
                     /\ out.kind = "return"
                     /\ "uptime" \in DOMAIN out.value
                  THEN <<out.value["uptime"]>>
                  ELSE <<>>]

register_agent(agent_type, agent_class) ==
    /\ registered_agents' = RegisterAgent(registered_agents, agent_type, agent_class)
    /\ last_registered' = DictSet(last_registered, agent_type, agent_class)
    /\ calls' = <<>>
    /\ ret' = Returned("register_agent",
                       [agent_type |-> agent_type, agent_class |-> agent_class], None)
    /\ UNCHANGED <<running, optimized, heap, init_log, handed, now, uptime_seen>>

get_available_agent_types ==
    /\ calls' = <<>>
    /\ ret' = Returned("get_available_agent_types", EmptyDict,
                       GetAvailableAgentTypes(registered_agents))
    /\ UNCHANGED <<running, optimized, registered_agents, last_registered, heap, init_log, handed, now,
                   uptime_seen>>

create_agent(agent_type, name, config, bound) ==
    LET out == CreateAgent(registered_agents, agent_type, name, config, now)
    IN  /\ Len(heap) < bound \/ agent_type \notin DOMAIN registered_agents
        /\ Built(out.constructed)
        /\ handed' = IF out.kind = "return" THEN handed \cup {Len(heap) + 1} ELSE handed
        /\ calls' = <<>>
        /\ ret' = Ended("create_agent",
                        [agent_type |-> agent_type, name |-> name, config |-> config],
                        out, Len(heap) + 1)
        /\ UNCHANGED <<running, registered_agents, last_registered, now>>

create_specialized_agent(agent_type, name, config, specialization, bound) ==
    LET out == CreateAgent(registered_agents, agent_type, name, config, now)
        base == out.constructed[1]
        special == [base EXCEPT !.dict = ApplySpecialization(base.dict, specialization)]
    IN  /\ Len(heap) < bound \/ agent_type \notin DOMAIN registered_agents
        /\ Built(IF out.kind = "return" THEN <<special>> ELSE out.constructed)
        /\ handed' = IF out.kind = "return" THEN handed \cup {Len(heap) + 1} ELSE handed
        /\ calls' = <<>>
        /\ ret' = Ended("create_specialized_agent",
                        [agent_type |-> agent_type, name |-> name, config |-> config,
                         specialization |-> specialization],
                        out, Len(heap) + 1)
        /\ UNCHANGED <<running, registered_agents, last_registered, now>>

\* the caller builds an agent itself and awaits its initialize()
construct(cls, name, config, bound) ==
    LET r == Initialize(cls, Construct(cls, name, config, now))
    IN  /\ Len(heap) < bound
        /\ Built(<<Instance(cls, r.dict, <<r.ok>>)>>)
        /\ handed' = handed \cup {Len(heap) + 1}
        /\ calls' = <<>>
        /\ ret' = Returned("construct", [cls |-> cls, name |-> name, config |-> config],
                           Len(heap) + 1)
        /\ UNCHANGED <<running, registered_agents, last_registered, now>>

\* what an execute that ended as `out` adds to the count of the optimize_roi
\* tasks executed
Optimizations(cls, task, out) ==
    IF /\ cls = "ROIOptimizationAgent"
       /\ DictGet(task, "type", None) = "optimize_roi"
       /\ out.kind = "return"
    THEN 1 ELSE 0

execute(i, task, bound) ==
    LET out == Execute(heap[i].cls, heap[i].dict, task, now)
    IN  /\ heap[i].cls \in HandlerClasses
           \/ DictGet(task, "type", None) \notin Handles(heap[i].cls)
        /\ Len(out.dict["metrics"]) <= bound
        /\ heap' = Assigned(i, out.dict)
        /\ optimized' = [optimized EXCEPT ![i] = @ + Optimizations(heap[i].cls, task, out)]
        /\ calls' = <<>>
        /\ ret' = Ended("execute", [agent |-> i, task |-> task], out,
                        IF out.kind = "return" THEN out.value ELSE None)
        /\ UNCHANGED <<running, registered_agents, last_registered, init_log, handed, now, uptime_seen>>

\* a monitor() call on instance i, made by operation `op`
Monitoring(op, i) ==
    LET out == Monitor(heap[i].cls, heap[i].dict, now)
    IN  /\ calls' = <<>>
        /\ ret' = Ended(op, [agent |-> i], out,
                        IF out.kind = "return" THEN out.value ELSE None)
        /\ uptime_seen' =
              IF out.kind = "return" /\ "uptime" \in DOMAIN out.value
              THEN [uptime_seen EXCEPT ![i] = LatestTwo(@, out.value["uptime"])]
              ELSE uptime_seen
        /\ UNCHANGED <<running, optimized, registered_agents, last_registered, heap, init_log, handed, now>>

monitor(i) == Monitoring("monitor", i)

\* BaseAgent.optimize: return await self.monitor()
optimize(i) == Monitoring("optimize", i)

\* a further initialize() call on an instance
initialize(i, bound) ==
    LET r == Initialize(heap[i].cls, heap[i].dict)
    IN  /\ Len(init_log[i]) < bound
        /\ heap' = Assigned(i, r.dict)
        /\ init_log' = [init_log EXCEPT ![i] = Append(@, r.ok)]
        /\ calls' = <<>>
        /\ ret' = Returned("initialize", [agent |-> i], r.ok)
        /\ UNCHANGED <<running, optimized, registered_agents, last_registered, handed, now, uptime_seen>>

collaborate(i, target_agent, message) ==
    LET out == Collaborate(heap, i, target_agent, message, now)
    IN  /\ calls' = out.calls
        /\ ret' = Returned("collaborate",
                           [agent |-> i, target_agent |-> target_agent, message |-> message],
                           out.value)
        /\ UNCHANGED <<running, optimized, registered_agents, last_registered, heap, init_log, handed, now,
                       uptime_seen>>

receive_message(i, sender, message) ==
    /\ calls' = <<Invocation(i, sender, message)>>
    /\ ret' = Returned("receive_message",
                       [agent |-> i, sender |-> sender, message |-> message],
                       ReceiveMessage(heap[i].dict, heap[sender].dict, message, now))
    /\ UNCHANGED <<running, optimized, registered_agents, last_registered, heap, init_log, handed, now, uptime_seen>>

\* the effect of the loop of initialize_ecosystem on the registry and on the
\* instances handed out
Ecosystemed(agent_classes, eco) ==
    /\ registered_agents' = eco.registered
    /\ last_registered' =
          [agent_type \in DOMAIN eco.registered |->
              IF agent_type \in DOMAIN agent_classes
              THEN agent_classes[agent_type]
              ELSE last_registered[agent_type]]
    /\ handed' = handed \cup {eco.agents[agent_type] : agent_type \in DOMAIN eco.agents}
    /\ calls' = <<>>
    /\ UNCHANGED <<running, now>>

initialize_ecosystem(agent_classes, bound) ==
    LET eco == InitializeEcosystem(registered_agents, agent_classes, Len(heap), now)
    IN  /\ Len(heap) < Len(EcosystemTypes) * bound
        /\ Ecosystemed(agent_classes, eco)
        /\ Built(eco.constructed)
        /\ ret' = Returned("initialize_ecosystem", [agent_classes |-> agent_classes],
                           eco.agents)

health_check(agent_classes, bound) ==
    LET eco == InitializeEcosystem(registered_agents, agent_classes, Len(heap), now)
        h == heap \o eco.constructed
    IN  /\ Len(heap) < Len(EcosystemTypes) * bound
        /\ Ecosystemed(agent_classes, eco)
        /\ BuiltAndMonitored(eco.constructed,
                             {eco.agents[agent_type] : agent_type \in DOMAIN eco.agents})
        /\ ret' = Returned("health_check", [agent_classes |-> agent_classes],
                           HealthStatus(eco.agents, h, now))

get_metrics(agent_classes, bound) ==
    LET eco == InitializeEcosystem(registered_agents, agent_classes, Len(heap), now)
        h == heap \o eco.constructed
    IN  /\ Len(heap) < Len(EcosystemTypes) * bound
        /\ Ecosystemed(agent_classes, eco)
        /\ Built(eco.constructed)
        /\ ret' = Returned("get_metrics", [agent_classes |-> agent_classes],
                           MetricsReport(eco.agents, h, now))

record_metric(i, name, value, bound) ==
    /\ Len(heap[i].dict["metrics"]) < bound
    /\ heap' = Assigned(i, RecordMetric(heap[i].dict, name, value, now))
    /\ calls' = <<>>
    /\ ret' = Returned("record_metric", [agent |-> i, name |-> name, value |-> value], None)
    /\ UNCHANGED <<running, optimized, registered_agents, last_registered, init_log, handed, now, uptime_seen>>

report_metrics(i) ==
    /\ calls' = <<>>
    /\ ret' = Returned("report_metrics", [agent |-> i], ReportMetrics(heap[i].dict, now))
    /\ UNCHANGED <<running, optimized, registered_agents, last_registered, heap, init_log, handed, now, uptime_seen>>

\* agent.execute(task) is started as a task of the event loop, next to the
\* coroutines already started: it is scheduled, and has run nothing yet
create_task(i, task, bound) ==
    /\ Len(running) < bound
    /\ running' = Append(running, Frame(i, task, "start", EmptyDict, "pending", None, <<>>))
    /\ calls' = <<>>
    /\ ret' = Returned("create_task", [agent |-> i, task |-> task], Len(running) + 1)
    /\ UNCHANGED <<optimized, registered_agents, last_registered, heap, init_log, handed, now,
                   uptime_seen>>

\* the event loop runs the k-th coroutine from where it stands
resume(k) ==
    LET frame == running[k]
        i == frame.agent
        out == ExecuteFrom(heap[i].cls, heap[i].dict, frame.task, frame.pc, frame.locals, now)
    IN  /\ frame.kind = "pending"
        /\ heap' = Assigned(i, out.dict)
        /\ running' = [running EXCEPT ![k] =
                          Frame(i, frame.task, out.pc, out.locals, out.kind, out.exc, out.msg)]
        /\ optimized' = [optimized EXCEPT ![i] = @ + Optimizations(heap[i].cls, frame.task, out)]
        /\ calls' = <<>>
        /\ ret' = IF out.kind = "pending" THEN ret
                  ELSE Outcome("execute", [agent |-> i, task |-> frame.task], out.kind,
                               out.exc, out.msg,
                               IF out.kind = "return" THEN out.locals ELSE None)
        /\ UNCHANGED <<registered_agents, last_registered, init_log, handed, now, uptime_seen>>

(* create_agent statement by statement, for callers that register while a    *)
(* creation is under way.  register_agent is a plain method: under one event *)
(* loop it can run only while create_agent waits in initialize(), from       *)
(* another thread between any two statements; the steps below admit both.    *)

\* factory.create_agent(agent_type, name, config) is called: its coroutine
\* stands before line 29
call_create_agent(agent_type, name, config, bound) ==
    /\ Len(running) < bound
    /\ running' = Append(running,
                         Frame(0, [agent_type |-> agent_type, name |-> name, config |-> config],
                               "line_29", EmptyDict, "pending", None, <<>>))
    /\ calls' = <<>>
    /\ ret' = Returned("call_create_agent",
                       [agent_type |-> agent_type, name |-> name, config |-> config],
                       Len(running) + 1)
    /\ UNCHANGED <<optimized, registered_agents, last_registered, heap, init_log, handed, now,
                   uptime_seen>>

\* the k-th coroutine ends by raising
Raised(k, exc, msg) ==
    /\ running' = [running EXCEPT ![k] = [@ EXCEPT !.pc = "ended", !.kind = "raise",
                                                   !.exc = exc, !.msg = msg]]
    /\ ret' = Outcome("create_agent", running[k].task, "raise", exc, msg, None)

\* lines 29-30: if agent_type not in self.registered_agents: raise ValueError
create_agent_check(k) ==
    LET frame == running[k]
    IN  /\ frame.kind = "pending" /\ frame.pc = "line_29"
        /\ IF frame.task.agent_type \notin DOMAIN registered_agents
           THEN Raised(k, "ValueError", <<"Unknown agent type: ", frame.task.agent_type>>)
           ELSE /\ running' = [running EXCEPT ![k].pc = "line_32"]
                /\ ret' = ret
        /\ calls' = <<>>
        /\ UNCHANGED <<optimized, registered_agents, last_registered, heap, init_log, handed,
                       now, uptime_seen>>

\* line 32: agent_class = self.registered_agents[agent_type]; the frame also
\* keeps, as history, the registry the lookup read
create_agent_lookup(k) ==
    LET frame == running[k]
    IN  /\ frame.kind = "pending" /\ frame.pc = "line_32"
        /\ IF frame.task.agent_type \notin DOMAIN registered_agents
           THEN Raised(k, "KeyError", <<frame.task.agent_type>>)
           ELSE /\ running' = [running EXCEPT ![k] =
                                  [@ EXCEPT !.pc = "line_33",
                                            !.locals =
                                                [agent_class |->
                                                     registered_agents[frame.task.agent_type],
                                                 registry_read |-> registered_agents]]]
                /\ ret' = ret
        /\ calls' = <<>>
        /\ UNCHANGED <<optimized, registered_agents, last_registered, heap, init_log, handed,
                       now, uptime_seen>>

\* line 33: agent = agent_class(name=name, config=config)
create_agent_construct(k) ==
    LET frame == running[k]
        cls == frame.locals.agent_class
    IN  /\ frame.kind = "pending" /\ frame.pc = "line_33"
        /\ Built(<<Instance(cls, Construct(cls, frame.task.name, frame.task.config, now), <<>>)>>)
        /\ running' = [running EXCEPT ![k] = [@ EXCEPT !.pc = "line_36", !.agent = Len(heap) + 1]]
        /\ calls' = <<>>
        /\ UNCHANGED <<registered_agents, last_registered, handed, now, ret>>

\* lines 36-41: success = await agent.initialize(); raise RuntimeError or
\* return agent
create_agent_initialize(k) ==
    LET frame == running[k]
        i == frame.agent
        r == Initialize(heap[i].cls, heap[i].dict)
    IN  /\ frame.kind = "pending" /\ frame.pc = "line_36"
        /\ heap' = Assigned(i, r.dict)
        /\ init_log' = [init_log EXCEPT ![i] = Append(@, r.ok)]
        /\ IF r.ok
           THEN /\ handed' = handed \cup {i}
                /\ running' = [running EXCEPT ![k] = [@ EXCEPT !.pc = "ended", !.kind = "return"]]
                /\ ret' = Returned("create_agent", frame.task, i)
           ELSE /\ handed' = handed
                /\ Raised(k, "RuntimeError", <<"Failed to initialize agent: ", frame.task.name>>)
        /\ calls' = <<>>
        /\ UNCHANGED <<optimized, registered_agents, last_registered, now, uptime_seen>>

\* time passes; datetime.utcnow() is taken not to go backwards
Tick ==
    /\ now < MaxTime
    /\ now' = now + 1
    /\ UNCHANGED <<running, optimized, registered_agents, last_registered, heap, init_log, handed, ret, uptime_seen, calls>>

-----------------------------------------------------------------------------
(* Inputs *)

Names == {"A1", "A2"}

Configs == {EmptyDict, [target_roi |-> Rat(1, 4)]}

\* a tag no registration ever uses
UnknownTag == "unknown_type"

\* a task type no class handles
UnknownType == "bogus"

\* tasks no class handles: an unrecognized type, a type of another class, no type
UnhandledTasks(cls) ==
    {task \in {[type |-> UnknownType], [type |-> UnknownType, data |-> EmptyDict],
               [type |-> "optimize_roi", data |-> EmptyDict],
               [type |-> "phase_transition", target_phase |-> "launch_day"],
               EmptyDict, [data |-> EmptyDict]} :
        DictGet(task, "type", None) \notin Handles(cls)}

Revenues == {60000, 92000, 100000}

Costs == {0 - 80000, 0, 80000}

TargetRois == {Rat(15, 100), Rat(1, 4)}

RoiData ==
    {[current_revenue |-> r, current_costs |-> c] : r \in Revenues, c \in Costs}
    \cup {[current_revenue |-> r, current_costs |-> c, target_roi |-> g] :
             r \in Revenues, c \in {80000}, g \in TargetRois}
    \cup {EmptyDict}

MarketplaceData ==
    {[active_listings |-> 100, total_transactions |-> 50, average_price |-> 200],
     [active_listings |-> 0, total_transactions |-> 5, average_price |-> 200],
     [active_listings |-> 100, total_transactions |-> 10],
     EmptyDict}

ReportData ==
    {[timeframe |-> "last_7d", metrics |-> {"revenue", "agent_performance"}],
     [metrics |-> {"user_growth", "churn"}],
     EmptyDict}

AnalysisData ==
    {[roi_data |-> [current_roi |-> Rat(1, 10), target_roi |-> Rat(15, 100)],
      marketplace_data |-> [listings_count |-> 100, transactions_count |-> 50]],
     [roi_data |-> [current_roi |-> Rat(1, 4), target_roi |-> Rat(15, 100)]],
     [roi_data |-> [current_roi |-> Rat(0 - 1, 10), target_roi |-> Rat(0, 1)]],
     [marketplace_data |-> [listings_count |-> 0, transactions_count |-> 0]],
     EmptyDict}

\* tasks a registered class dispatches to a handler
HandledTasks(cls) ==
    CASE cls = "ROIOptimizationAgent" ->
            {[type |-> "optimize_roi", data |-> data] : data \in RoiData}
            \cup {[type |-> "optimize_roi"]}
      [] cls = "MarketplaceManagerAgent" ->
            {[type |-> "analyze_marketplace", data |-> data] : data \in MarketplaceData}
            \cup {[type |-> "get_marketplace_stats"]}
      [] cls = "AnalyticsAgent" ->
            {[type |-> "generate_report", data |-> data] : data \in ReportData}
            \cup {[type |-> "analyze_data", data |-> data] : data \in AnalysisData}
      [] OTHER -> {}

\* messages between agents
Messages == {[type |-> "test_message"]}

\* tasks of the agents that collaborate: one a handler serves, one it does not
PeerTasks(cls) ==
    CASE cls = "ROIOptimizationAgent" ->
            {[type |-> "optimize_roi",
              data |-> [current_revenue |-> 100000, current_costs |-> 80000]],
             [type |-> UnknownType]}
      [] cls = "MarketplaceManagerAgent" ->
            {[type |-> "get_marketplace_stats"], [type |-> UnknownType]}
      [] cls = "AnalyticsAgent" ->
            {[type |-> "generate_report", data |-> EmptyDict], [type |-> UnknownType]}
      [] OTHER -> {[type |-> "test_task"]}

\* stand-ins for a class of agent_classes: one whose initialize() reports
\* failure, one whose monitor() raises
StandIns == {FailingClass, "LaunchStrategistAgent"}

\* the agent_classes of initialize_ecosystem, and the same mapping with
\* stand-ins in the place of some of its classes
AgentClassMaps ==
    {agent_classes \in [DOMAIN DefaultRegistry -> Classes] :
        \A agent_type \in DOMAIN DefaultRegistry :
            agent_classes[agent_type] \in {DefaultRegistry[agent_type]} \cup StandIns}

OverrideKeys == {"target_roi", "optimize", "priority"}

OverrideValues == {"custom"}

RECURSIVE ItemLists(_)
\* the dictionaries of at most n overrides, as the lists of their items
ItemLists(n) ==
    IF n = 0 THEN {<<>>}
    ELSE LET shorter == ItemLists(n - 1)
         IN  shorter \cup
             {Append(items, <<k, v>>) :
                 items \in {l \in shorter : Len(l) = n - 1},
                 k \in OverrideKeys, v \in OverrideValues}

Specializations ==
    {items \in ItemLists(MaxOverrides) :
        \A a, b \in DOMAIN items : a # b => items[a][1] # items[b][1]}

-----------------------------------------------------------------------------
(* The agent contract: agents of every concrete class, built by the factory  *)
(* or by the caller; dispatch of unhandled tasks, monitoring, the clock      *)

Next ==
    \/ \E agent_type \in DOMAIN DefaultRegistry :
          create_agent(agent_type, "A1", EmptyDict, MaxAgents)
    \/ \E cls \in UnregisteredClasses : construct(cls, "A1", EmptyDict, MaxAgents)
    \/ \E i \in handed : \E task \in UnhandledTasks(heap[i].cls) : execute(i, task, MaxMetrics)
    \/ \E i \in handed : monitor(i)
    \/ \E i \in handed : report_metrics(i)
    \/ Tick

Spec == Init /\ [][Next]_vars

(* The factory: registration, creation, specialization *)

FactoryClasses == {"ROIOptimizationAgent", "LaunchStrategistAgent", FailingClass}

FactoryTags == {"roi_optimization", "marketplace_manager", UnknownTag}

FactoryNext ==
    \/ \E agent_class \in FactoryClasses : register_agent("roi_optimization", agent_class)
    \/ \E agent_type \in FactoryTags, name \in Names, config \in Configs :
          create_agent(agent_type, name, config, MaxBuilt)
    \/ \E agent_type \in FactoryTags, specialization \in Specializations :
          create_specialized_agent(agent_type, "A1", EmptyDict, specialization, MaxBuilt)

FactorySpec == Init /\ [][FactoryNext]_vars

(* The metric log of the agents of the registered classes *)

MetricsNext ==
    \/ \E agent_type \in DOMAIN DefaultRegistry, config \in Configs :
          create_agent(agent_type, "A1", config, MaxAgents)
    \/ \E i \in handed : \E value \in {1, 2} : record_metric(i, "latency", value, MaxMetrics)
    \/ \E i \in handed : report_metrics(i)

MetricsSpec == Init /\ [][MetricsNext]_vars

(* The clock: uptime over the life of the agents of the registered classes *)

ClockNext ==
    \/ \E agent_type \in DOMAIN DefaultRegistry :
          create_agent(agent_type, "A1", EmptyDict, MaxAgents)
    \/ \E i \in handed : execute(i, [type |-> UnknownType], MaxClockMetrics)
    \/ \E i \in handed : monitor(i)
    \/ \E i \in handed : record_metric(i, "latency", 1, MaxClockMetrics)
    \/ Tick

ClockSpec == Init /\ [][ClockNext]_vars

(* The handlers of the three registered classes *)

HandlerNext ==
    \/ \E agent_type \in DOMAIN DefaultRegistry, config \in Configs :
          create_agent(agent_type, "A1", config, MaxAgents)
    \/ \E i \in handed : \E task \in HandledTasks(heap[i].cls) : execute(i, task, MaxHandled)

HandlerSpec == Init /\ [][HandlerNext]_vars

(* The whole contract of BaseAgent over the life of one agent, of a          *)
(* registered class or of the test suite's class, under the clock            *)

\* the names of the instances built so far
NamesInUse == {heap[i].dict["name"] : i \in DOMAIN heap}

ContractNames == {"test_agent"}

ContractNext ==
    \/ \E agent_type \in DOMAIN DefaultRegistry, name \in ContractNames \ NamesInUse :
          create_agent(agent_type, name, EmptyDict, Cardinality(ContractNames))
    \/ \E name \in ContractNames \ NamesInUse :
          construct(TestClass, name, [test |-> TRUE], Cardinality(ContractNames))
    \/ \E i \in handed : initialize(i, MaxInits)
    \/ \E i \in handed : \E task \in PeerTasks(heap[i].cls) : execute(i, task, MaxPeerMetrics)
    \/ \E i \in handed : monitor(i)
    \/ \E i \in handed : optimize(i)
    \/ \E i \in handed : record_metric(i, "latency", 1, MaxPeerMetrics)
    \/ \E i \in handed : report_metrics(i)
    \/ \E i, j \in handed, message \in Messages : collaborate(i, j, message)
    \/ \E i, j \in handed, message \in Messages : receive_message(i, j, message)
    \/ Tick

ContractSpec == Init /\ [][ContractNext]_vars

(* Agents side by side, each created under a name of its own: collaboration  *)
(* and the state each agent owns                                             *)

PeerNames == {"test_agent", "other_agent"}

PeerNext ==
    \/ \E name \in PeerNames \ NamesInUse :
          create_agent("roi_optimization", name, EmptyDict, Cardinality(PeerNames))
    \/ \E name \in PeerNames \ NamesInUse :
          construct(TestClass, name, [test |-> TRUE], Cardinality(PeerNames))
    \/ \E i \in handed : \E task \in PeerTasks(heap[i].cls) : execute(i, task, MaxPeerMetrics)
    \/ \E i \in handed : monitor(i)
    \/ \E i \in handed : record_metric(i, "latency", 1, MaxPeerMetrics)
    \/ \E i, j \in handed, message \in Messages : collaborate(i, j, message)

PeerSpec == Init /\ [][PeerNext]_vars

(* The registry: tags added and replaced, listed, and used *)

RegistryTags == {"roi_optimization", "launch_strategist", "custom"}

RegistryNext ==
    \/ \E agent_type \in RegistryTags, agent_class \in FactoryClasses :
          register_agent(agent_type, agent_class)
    \/ get_available_agent_types
    \/ \E agent_type \in RegistryTags :
          create_agent(agent_type, "A1", EmptyDict, MaxBuilt)

RegistrySpec == Init /\ [][RegistryNext]_vars

(* The marketplace agent under the tasks its callers send: the tasks of its   *)
(* handlers and the tasks of the marketplace demonstration                    *)

\* the listings generate_marketplace_listings builds
DemoListings ==
    {[name |-> "AI Agent Package 1", price |-> 150, category |-> "analytics",
      seller_id |-> "seller_1000", status |-> "active"],
     [name |-> "AI Agent Package 2", price |-> 250, category |-> "custom",
      seller_id |-> "seller_1001", status |-> "pending"]}

\* the task types demonstrate_marketplace sends
DemoTypes == {"create_listing", "process_purchase", "update_listing"}

\* the tasks demonstrate_marketplace sends
DemoTasks ==
    {[type |-> "create_listing", seller_id |-> listing.seller_id, listing_data |-> listing] :
        listing \in DemoListings}
    \cup {[type |-> "process_purchase", buyer_id |-> "buyer_1000", listing_id |-> "listing_1"],
          [type |-> "update_listing", listing_id |-> "listing_1",
           updates |-> [price |-> 149, description |-> "Updated description with special offer!"]]}

DemoNames == {"marketplace_demo"}

\* the configuration of the demonstration's agent
DemoConfig == [commission_rate |-> Rat(15, 100)]

MarketplaceNext ==
    \/ \E name \in DemoNames \ NamesInUse :
          construct("MarketplaceManagerAgent", name, DemoConfig, Cardinality(DemoNames))
    \/ \E i \in handed : \E task \in DemoTasks : execute(i, task, MaxMarketMetrics)
    \/ \E i \in handed : \E task \in HandledTasks(heap[i].cls) :
          execute(i, task, MaxMarketMetrics)
    \/ \E i \in handed : monitor(i)

MarketplaceSpec == Init /\ [][MarketplaceNext]_vars

(* Concurrent callers: optimize_roi tasks started as concurrent tasks of the  *)
(* event loop on one agent                                                    *)

ConcurrentNames == {"roi_agent"}

\* optimize_roi tasks that tell their log entries apart, and a task that fails
ConcurrentTasks ==
    {[type |-> UnknownType],
     [type |-> "optimize_roi",
      data |-> [current_revenue |-> 100000, current_costs |-> 80000]],
     [type |-> "optimize_roi",
      data |-> [current_revenue |-> 60000, current_costs |-> 80000, target_roi |-> Rat(1, 4)]],
     [type |-> "optimize_roi",
      data |-> [current_revenue |-> 92000, current_costs |-> 0, target_roi |-> Rat(1, 10)]]}

ConcurrentNext ==
    \/ \E name \in ConcurrentNames \ NamesInUse :
          create_agent("roi_optimization", name, EmptyDict, Cardinality(ConcurrentNames))
    \/ \E i \in handed : \E task \in ConcurrentTasks : create_task(i, task, MaxCalls)
    \/ \E k \in DOMAIN running : resume(k)
    \/ \E i \in handed : report_metrics(i)

ConcurrentSpec == Init /\ [][ConcurrentNext]_vars

(* Registration while creations are under way *)

InterleavedTags == {"roi_optimization", "custom"}

InterleavedClasses == {"ROIOptimizationAgent", "LaunchStrategistAgent", FailingClass}

InterleavedNext ==
    \/ \E agent_type \in InterleavedTags, agent_class \in InterleavedClasses :
          register_agent(agent_type, agent_class)
    \/ \E agent_type \in InterleavedTags :
          call_create_agent(agent_type, "A1", EmptyDict, MaxCreations)
    \/ \E k \in DOMAIN running : create_agent_check(k)
    \/ \E k \in DOMAIN running : create_agent_lookup(k)
    \/ \E k \in DOMAIN running : create_agent_construct(k)
    \/ \E k \in DOMAIN running : create_agent_initialize(k)

InterleavedSpec == Init /\ [][InterleavedNext]_vars

(* The HTTP layer *)

EcosystemNext ==
    \/ \E agent_classes \in AgentClassMaps : initialize_ecosystem(agent_classes, MaxRequests)
    \/ \E agent_classes \in AgentClassMaps : health_check(agent_classes, MaxRequests)
    \/ \E i \in handed : report_metrics(i)

EcosystemSpec == Init /\ [][EcosystemNext]_vars

(* The HTTP layer over several requests, with the agent_classes of main.py,   *)
(* and tasks run on the agents built so far                                   *)

\* tasks that write to the metric log of the agent they run on
RequestTasks(cls) ==
    CASE cls = "ROIOptimizationAgent" ->
            {[type |-> "optimize_roi",
              data |-> [current_revenue |-> 100000, current_costs |-> 80000]]}
      [] cls = "MarketplaceManagerAgent" ->
            {[type |-> "analyze_marketplace",
              data |-> [active_listings |-> 100, total_transactions |-> 50,
                        average_price |-> 200]]}
      [] OTHER -> {}

RequestNext ==
    \/ initialize_ecosystem(DefaultRegistry, MaxLiveRequests)
    \/ health_check(DefaultRegistry, MaxLiveRequests)
    \/ get_metrics(DefaultRegistry, MaxLiveRequests)
    \/ \E i \in handed : \E task \in RequestTasks(heap[i].cls) :
          execute(i, task, MaxRequestMetrics)

RequestSpec == Init /\ [][RequestNext]_vars

(* The launch agent under the tasks of its three handlers *)

LaunchUpdates ==
    {EmptyDict,
     [pre_launch |-> [create_landing_page |-> [status |-> "completed"]]],
     [pre_launch |-> [press_release |-> [status |-> "pending"]]],
     [beta |-> [create_landing_page |-> [status |-> "completed"]]]}

LaunchTasks ==
    {[type |-> "phase_transition", target_phase |-> target_phase] :
        target_phase \in {"launch_day", "post_launch", "beta"}}
    \cup {[type |-> "execute_task", task_name |-> task_name] :
             task_name \in {"create_landing_page", "prepare_email_campaigns",
                            "publish_announcement", "write_press_release"}}
    \cup {[type |-> "update_strategy", updates |-> updates] : updates \in LaunchUpdates}
    \cup {[type |-> UnknownType]}

LaunchNames == {"launch_agent"}

LaunchNext ==
    \/ \E name \in LaunchNames \ NamesInUse :
          construct("LaunchStrategistAgent", name, EmptyDict, Cardinality(LaunchNames))
    \/ \E i \in handed : \E task \in LaunchTasks : execute(i, task, MaxLaunchMetrics)
    \/ \E i \in handed : monitor(i)
    \/ \E i \in handed : record_metric(i, "latency", 1, MaxLaunchMetrics)
    \/ \E i \in handed : report_metrics(i)
    \/ Tick

LaunchSpec == Init /\ [][LaunchNext]_vars

(* The onboarding agent: one user taken through a flow *)

OnboardingTasks ==
    {[type |-> "start_onboarding", user_id |-> "user_1"],
     [type |-> "start_onboarding", user_id |-> "user_1", flow_type |-> "trial"],
     [type |-> "track_progress", user_id |-> "user_1", step |-> "welcome"],
     [type |-> "track_progress", user_id |-> "user_1", step |-> "support_resources"],
     [type |-> "track_progress", user_id |-> "user_1", step |-> "api_overview"],
     [type |-> "track_progress", user_id |-> "user_2", step |-> "welcome"],
     [type |-> "optimize_flow", flow_type |-> "default"],
     [type |-> "optimize_flow", flow_type |-> "trial"],
     [type |-> UnknownType]}

OnboardingNames == {"onboarding_agent"}

\* the longest completed_steps among the users of instance i
Tracked(i) ==
    LET progress == heap[i].dict["user_progress"]
    IN  IF progress = EmptyDict THEN 0
        ELSE Len(progress[CHOOSE u \in DOMAIN progress :
                              \A v \in DOMAIN progress :
                                  Len(progress[v].completed_steps)
                                      <= Len(progress[u].completed_steps)].completed_steps)

OnboardingNext ==
    \/ \E name \in OnboardingNames \ NamesInUse :
          construct("UserOnboardingAgent", name, EmptyDict, Cardinality(OnboardingNames))
    \/ \E i \in handed : \E task \in OnboardingTasks :
          Tracked(i) < MaxTracked /\ execute(i, task, 0)
    \/ \E i \in handed : monitor(i)

OnboardingSpec == Init /\ [][OnboardingNext]_vars

-----------------------------------------------------------------------------
(* Properties *)

\* the last operation was `op`
Did(op) == ret.op = op

\* the instance the last creation built
Newest == Len(heap)

\* C1: whenever create_agent is called with a registered tag and returns, the
\* agent it returns is of the registered class, initialize() has been called
\* on it exactly once and that call returned true; for the classes of the
\* repository, whose initialize() succeeds, it does return.
C1_InitializedOnceBeforeReturn ==
    (Did("create_agent") /\ ret.args.agent_type \in DOMAIN registered_agents) =>
        LET cls == registered_agents[ret.args.agent_type]
        IN  /\ cls \in ConcreteClasses => ret.kind = "return"
            /\ ret.kind = "return" =>
                  /\ ret.value \in handed
                  /\ heap[ret.value].cls = cls
                  /\ init_log[ret.value] = <<TRUE>>

C1_Witness ==
    /\ Did("create_agent")
    /\ ret.kind = "return"
    /\ ret.args.agent_type = "marketplace_manager"
    /\ init_log[ret.value] = <<TRUE>>

\* C2: a create_agent call with an unregistered tag raises ValueError "Unknown
\* agent type: <tag>" and in that step no instance is constructed, no
\* initialize() is called and the registry is unchanged.
C2_UnknownTypeNoSideEffect ==
    [][(ret'.op = "create_agent" /\ ret'.args.agent_type \notin DOMAIN registered_agents) =>
          /\ ret'.kind = "raise"
          /\ ret'.exc = "ValueError"
          /\ ret'.msg = <<"Unknown agent type: ", ret'.args.agent_type>>
          /\ UNCHANGED <<heap, init_log, handed, registered_agents>>]_vars

C2_Witness ==
    /\ Did("create_agent")
    /\ ret.args.agent_type = UnknownTag
    /\ ret.kind = "raise"
    /\ heap # <<>>

\* C3: when the initialize() of the instance a creation built returned false,
\* the creation raised RuntimeError "Failed to initialize agent: <name>" and
\* the instance was not handed back; every instance the factory handed back
\* has had initialize() return true.
C3_FailedInitializeNeverReturned ==
    /\ \A i \in handed : init_log[i] = <<TRUE>>
    /\ (/\ ret.op \in {"create_agent", "create_specialized_agent"}
        /\ ret.args.agent_type \in DOMAIN registered_agents
        /\ init_log[Newest] # <<TRUE>>) =>
            /\ ret.kind = "raise"
            /\ ret.exc = "RuntimeError"
            /\ ret.msg = <<"Failed to initialize agent: ", ret.args.name>>
            /\ heap[Newest].dict["name"] = ret.args.name
            /\ Newest \notin handed

C3_Witness ==
    /\ Did("create_agent")
    /\ ret.exc = "RuntimeError"
    /\ ret.args.name = "A2"
    /\ init_log[Newest] = <<FALSE>>

\* C4: execute with a task whose type the agent's class does not handle fails:
\* it raises (ValueError naming the type; KeyError when the task has no type
\* at all and the class reads task["type"]) or returns the error result
\* "Unknown task type"; it never returns a result of status success.
C4_UnhandledTypeFails ==
    (Did("execute") /\ DictGet(ret.args.task, "type", None)
                          \notin Handles(heap[ret.args.agent].cls)) =>
        \/ /\ ret.kind = "raise"
           /\ \/ /\ ret.exc = "ValueError"
                 /\ ret.msg = <<"Unknown task type: ", DictGet(ret.args.task, "type", None)>>
              \/ /\ ret.exc = "KeyError"
                 /\ "type" \notin DOMAIN ret.args.task
        \/ /\ ret.kind = "return"
           /\ "type" \in DOMAIN ret.args.task
           /\ ret.value = [status |-> "error", message |-> "Unknown task type"]

C4_Witness ==
    /\ Did("execute")
    /\ heap[ret.args.agent].cls = "RevenueOptimizerAgent"
    /\ ret.args.task = [type |-> UnknownType]
    /\ ret.kind = "return"

\* C5: the registry holds for every tag the class of the latest registration
\* of that tag, and a create_agent with a registered tag constructs an
\* instance of that class.
C5_LatestRegistrationWins ==
    /\ registered_agents = last_registered
    /\ (Did("create_agent") /\ ret.args.agent_type \in DOMAIN registered_agents) =>
          heap[Newest].cls = last_registered[ret.args.agent_type]

C5_Witness ==
    /\ Did("create_agent")
    /\ ret.args.agent_type = "roi_optimization"
    /\ ret.kind = "return"
    /\ heap[ret.value].cls = "LaunchStrategistAgent"

\* C6: a record_metric(name, value) step leaves the log as it was with one
\* entry carrying name and value added at the end, and report_metrics read
\* right after it shows that log.
C6_MetricAppendedLast ==
    [][ret'.op = "record_metric" =>
          LET i == ret'.args.agent
              before == heap[i].dict["metrics"]
              read == ReportMetrics(heap'[i].dict, now').metrics
          IN  /\ Len(read) = Len(before) + 1
              /\ SubSeq(read, 1, Len(before)) = before
              /\ read[Len(read)].name = ret'.args.name
              /\ read[Len(read)].value = ret'.args.value]_vars

C6_Witness ==
    /\ Did("record_metric")
    /\ ret.args.value = 2
    /\ Len(heap[ret.args.agent].dict["metrics"]) = 3
    /\ heap[ret.args.agent].dict["metrics"][1].value = 1

\* C7: monitor() of an initialized agent of any concrete class returns a
\* snapshot with name, status, uptime >= 0 and a metrics section.
C7_MonitorCommonFields ==
    Did("monitor") =>
        /\ ret.kind = "return"
        /\ {"name", "status", "uptime", "metrics"} \subseteq DOMAIN ret.value
        /\ ret.value["uptime"] >= 0

\* C8: the uptime an instance's monitor() reports never decreases from one
\* call to the next.
C8_UptimeMonotone ==
    \A i \in DOMAIN uptime_seen :
        Len(uptime_seen[i]) = 2 => uptime_seen[i][1] <= uptime_seen[i][2]

C8_Witness ==
    /\ Did("monitor")
    /\ uptime_seen[ret.args.agent] = <<0, 1>>
    /\ heap[ret.args.agent].dict["metrics"] # <<>>

\* keys of the items of a specialization
KeysOf(items) == {items[j][1] : j \in DOMAIN items}

\* C9: the agent create_specialized_agent returns differs from the one
\* create_agent builds from the same arguments only in the overrides that name
\* an attribute this agent already has, each of which holds its override
\* value; an override naming no attribute raises nothing and adds nothing.
C9_OverridesOnlyExisting ==
    Did("create_specialized_agent") =>
        LET plain == CreateAgent(registered_agents, ret.args.agent_type, ret.args.name,
                                 ret.args.config, now)
            items == ret.args.specialization
        IN  /\ ret.kind = plain.kind
            /\ ret.kind = "return" =>
                  LET base == plain.constructed[1].dict
                      result == heap[ret.value].dict
                  IN  /\ \A k \in KeysOf(items) \cup DOMAIN base \cup DOMAIN result :
                            HasAttr(result, k) <=> HasAttr(base, k)
                      /\ \A j \in DOMAIN items :
                            IF HasAttr(base, items[j][1])
                            THEN result[items[j][1]] = items[j][2]
                            ELSE items[j][1] \notin DOMAIN result
                      /\ \A k \in (DOMAIN base) \ KeysOf(items) :
                            k \in DOMAIN result /\ result[k] = base[k]

C9_Witness ==
    /\ Did("create_specialized_agent")
    /\ ret.kind = "return"
    /\ ret.args.specialization = <<<<"priority", "custom">>, <<"target_roi", "custom">>>>
    /\ heap[ret.value].dict["target_roi"] = "custom"
    /\ "priority" \notin DOMAIN heap[ret.value].dict

\* C10: an optimize_roi task on an ROI agent returns status success with
\* current_roi = (current_revenue - current_costs) / current_costs when
\* current_costs > 0 (1/4 for revenue 100000 and costs 80000), and with
\* current_roi = 0 and no division error when current_costs <= 0.
C10_CurrentRoi ==
    (/\ Did("execute")
     /\ heap[ret.args.agent].cls = "ROIOptimizationAgent"
     /\ DictGet(ret.args.task, "type", None) = "optimize_roi") =>
        LET data == DictGet(ret.args.task, "data", EmptyDict)
            revenue == DictGet(data, "current_revenue", 0)
            costs == DictGet(data, "current_costs", 0)
        IN  /\ ret.kind = "return"
            /\ ret.value.status = "success"
            /\ ret.value.current_roi.d > 0
            /\ costs > 0 => ret.value.current_roi.n * costs
                               = (revenue - costs) * ret.value.current_roi.d
            /\ costs <= 0 => ret.value.current_roi.n = 0
            /\ (revenue = 100000 /\ costs = 80000) =>
                  4 * ret.value.current_roi.n = ret.value.current_roi.d

C10_Witness ==
    /\ Did("execute")
    /\ ret.kind = "return"
    /\ ret.args.task = [type |-> "optimize_roi",
                        data |-> [current_revenue |-> 100000, current_costs |-> 80000,
                                  target_roi |-> Rat(15, 100)]]
    /\ RatEq(ret.value.current_roi, Rat(1, 4))

\* C11: an optimize_roi task returns the three "increase revenue"
\* recommendations when current_roi is strictly below the target and an empty
\* list when current_roi >= target, the target being the target_roi of the task
\* data when given and the agent's configured target otherwise.
C11_RecommendationsBelowTarget ==
    (/\ Did("execute")
     /\ heap[ret.args.agent].cls = "ROIOptimizationAgent"
     /\ DictGet(ret.args.task, "type", None) = "optimize_roi"
     /\ ret.kind = "return") =>
        LET data == DictGet(ret.args.task, "data", EmptyDict)
            revenue == DictGet(data, "current_revenue", 0)
            costs == DictGet(data, "current_costs", 0)
            configured == DictGet(heap[ret.args.agent].dict["config"], "target_roi",
                                  DefaultTargetRoi)
            target == IF "target_roi" \in DOMAIN data THEN data["target_roi"] ELSE configured
            below == IF costs > 0
                     THEN (revenue - costs) * target.d < target.n * costs
                     ELSE 0 < target.n
        IN  /\ RatEq(ret.value.target_roi, target)
            /\ below => /\ Len(ret.value.recommendations) = 3
                        /\ ret.value.recommendations[1].text
                              = "Increase revenue to reach target ROI"
            /\ ~below => ret.value.recommendations = <<>>

C11_Witness ==
    /\ Did("execute")
    /\ ret.kind = "return"
    /\ heap[ret.args.agent].dict["config"] = EmptyDict
    /\ ret.args.task = [type |-> "optimize_roi",
                        data |-> [current_revenue |-> 92000, current_costs |-> 80000,
                                  target_roi |-> Rat(1, 4)]]
    /\ Len(ret.value.recommendations) = 3

\* C12: a step a.collaborate(b, message) invokes receive_message once, on b
\* with a as the sender, and returns what that invocation returns: status
\* "received" and from = a's name; the metric log and the status of a and of b
\* are as before.
C12_CollaborateDelivers ==
    [][ret'.op = "collaborate" =>
          LET a == ret'.args.agent
              b == ret'.args.target_agent
          IN  /\ calls' = <<Invocation(b, a, ret'.args.message)>>
              /\ ret'.kind = "return"
              /\ ret'.value = ReceiveMessage(heap[b].dict, heap[a].dict,
                                             ret'.args.message, now)
              /\ ret'.value.status = "received"
              /\ ret'.value.from = heap[a].dict["name"]
              /\ \A k \in {a, b} :
                    /\ heap'[k].dict["metrics"] = heap[k].dict["metrics"]
                    /\ heap'[k].dict["status"] = heap[k].dict["status"]]_<<heap, calls, ret.op>>

C12_Witness ==
    /\ Did("collaborate")
    /\ ret.args.agent # ret.args.target_agent
    /\ ret.value.from = "test_agent"
    /\ heap[ret.args.target_agent].dict["name"] = "other_agent"
    /\ heap[ret.args.agent].dict["metrics"] # <<>>
    /\ Len(calls) = 1

\* C13: after an execute step that returns, the agent's last_active is
\* strictly later than it was before the call.
C13_ExecuteAdvancesLastActive ==
    [][(ret'.op = "execute" /\ ret'.kind = "return") =>
          heap'[ret'.args.agent].dict["last_active"]
              > heap[ret'.args.agent].dict["last_active"]]_<<heap, ret.op>>

\* the attributes of an instance that BaseAgent.__init__ sets once
Identity(d) ==
    <<d["name"], d["config"], d["created_at"], d["last_active"], d["status"]>>

\* C14: for agents of the three registered classes, no step of the agent
\* contract changes name, config, created_at, last_active or status; status
\* stays "initialized" and last_active stays the construction time.
C14_IdentityFrozen ==
    [][/\ \A i \in DOMAIN heap :
             heap[i].cls \in RegisteredClasses =>
                 Identity(heap'[i].dict) = Identity(heap[i].dict)
       /\ \A i \in DOMAIN heap' :
             heap'[i].cls \in RegisteredClasses =>
                 /\ heap'[i].dict["status"] = "initialized"
                 /\ heap'[i].dict["last_active"] = heap'[i].dict["created_at"]]_<<heap, now, ret.op>>

C14_Witness ==
    /\ Did("execute")
    /\ ret.kind = "return"
    /\ heap[ret.args.agent].cls = "AnalyticsAgent"
    /\ Len(init_log[ret.args.agent]) = 2
    /\ now = 1
    /\ heap[ret.args.agent].dict["last_active"] = 0
    /\ heap[ret.args.agent].dict["metrics"] # <<>>

\* C15: initialize_ecosystem attempts every type of agent_classes whether or
\* not an earlier creation raised, and returns the mapping of exactly the types
\* whose creation succeeded; the response of health_check holds the snapshot
\* of every created agent whose monitor() returns, whichever other agent's
\* creation or monitor() raised.
C15_FailureIsolated ==
    (Did("initialize_ecosystem") \/ Did("health_check")) =>
        LET agent_classes == ret.args.agent_classes
            n == Len(EcosystemTypes)
            made == [k \in 1..n |-> Len(heap) - n + k]
            created == {k \in 1..n : init_log[made[k]] = <<TRUE>>}
            answering == {k \in created : heap[made[k]].cls # "LaunchStrategistAgent"}
        IN  /\ ret.kind = "return"
            /\ Len(heap) >= n
            /\ \A k \in 1..n :
                  /\ heap[made[k]].cls = agent_classes[EcosystemTypes[k]]
                  /\ heap[made[k]].dict["name"] = EcosystemTypes[k] \o "_agent"
            /\ Did("initialize_ecosystem") =>
                  /\ DOMAIN ret.value = {EcosystemTypes[k] : k \in created}
                  /\ \A k \in created : ret.value[EcosystemTypes[k]] = made[k]
            /\ Did("health_check") =>
                  /\ DOMAIN ret.value = {EcosystemTypes[k] : k \in answering}
                  /\ \A k \in answering :
                        ret.value[EcosystemTypes[k]]["name"] = EcosystemTypes[k] \o "_agent"

C15_Witness ==
    /\ Did("health_check")
    /\ ret.args.agent_classes = [roi_optimization |-> FailingClass,
                                 marketplace_manager |-> "LaunchStrategistAgent",
                                 analytics |-> "AnalyticsAgent"]
    /\ DOMAIN ret.value = {"analytics"}
    /\ ret.value["analytics"]["status"] = "initialized"

\* C16: monitor() and report_metrics() raise nothing on a successfully
\* initialized agent of any concrete class.
C16_MonitoringNeverRaises ==
    (Did("monitor") \/ Did("report_metrics")) => ret.kind = "return"

\* C17: when execute is given a type its class does not handle, the error it
\* raises or returns names that type.
C17_DispatchErrorNamesType ==
    (/\ Did("execute")
     /\ "type" \in DOMAIN ret.args.task
     /\ ret.args.task["type"] \notin Handles(heap[ret.args.agent].cls)) =>
        \/ /\ ret.kind = "raise"
           /\ \E k \in DOMAIN ret.msg : ret.msg[k] = ret.args.task["type"]
        \/ /\ ret.kind = "return"
           /\ ret.value.message = "Unknown task type: " \o ret.args.task["type"]

\* l is an initial part of m
IsPrefix(l, m) == Len(l) <= Len(m) /\ SubSeq(m, 1, Len(l)) = l

\* C18: every step of the agent contract leaves the metric log of every agent
\* an extension of what it was: entries are only ever added at the end, none
\* is removed or changed.
C18_MetricLogAppendOnly ==
    [][\A i \in DOMAIN heap :
          IsPrefix(heap[i].dict["metrics"], heap'[i].dict["metrics"])]_<<heap, ret.op>>

C18_Witness ==
    /\ Did("optimize")
    /\ ret.kind = "return"
    /\ Len(init_log[ret.args.agent]) = 2
    /\ Len(heap[ret.args.agent].dict["metrics"]) = 2
    /\ heap[ret.args.agent].dict["metrics"][1].timestamp = 0
    /\ heap[ret.args.agent].dict["metrics"][2].timestamp = 1

\* C19: get_available_agent_types returns exactly the tags registered at the
\* time of the call, the three defaults always among them, and changes neither
\* the registry nor any agent; no step removes a tag from the registry.
C19_AvailableTypesAreRegistered ==
    [][/\ DOMAIN registered_agents \subseteq DOMAIN registered_agents'
       /\ ret'.op = "get_available_agent_types" =>
             /\ ret'.kind = "return"
             /\ ret'.value = DOMAIN registered_agents
             /\ {"roi_optimization", "marketplace_manager", "analytics"} \subseteq ret'.value
             /\ UNCHANGED <<registered_agents, heap, init_log, handed>>]_<<registered_agents, heap, ret.op>>

C19_Witness ==
    /\ Did("get_available_agent_types")
    /\ ret.value = {"roi_optimization", "marketplace_manager", "analytics", "custom"}
    /\ registered_agents["roi_optimization"] = "LaunchStrategistAgent"
    /\ heap # <<>>

\* C20: an execute, record_metric, monitor or collaborate step on one agent
\* leaves the metric log and the status of every other agent as they were,
\* agents created from the same tag included.
C20_AgentsOwnTheirState ==
    [][ret'.op \in {"execute", "record_metric", "monitor", "collaborate"} =>
          \A j \in DOMAIN heap :
              j # ret'.args.agent =>
                  /\ heap'[j].dict["metrics"] = heap[j].dict["metrics"]
                  /\ heap'[j].dict["status"] = heap[j].dict["status"]]_<<heap, ret.op>>

C20_Witness ==
    /\ Did("execute")
    /\ ret.kind = "return"
    /\ ret.args.agent = 1
    /\ Len(heap) = 2
    /\ heap[1].cls = "ROIOptimizationAgent"
    /\ heap[2].cls = "ROIOptimizationAgent"
    /\ Len(heap[1].dict["metrics"]) = 2
    /\ Len(heap[2].dict["metrics"]) = 1

\* C21: execute of the marketplace agent returns a result for each task type
\* the demonstration sends (create_listing, process_purchase, update_listing),
\* and create_listing adds the listing it answers with to the agent's listings.
C21_DemoTasksAccepted ==
    (/\ Did("execute")
     /\ heap[ret.args.agent].cls = "MarketplaceManagerAgent"
     /\ DictGet(ret.args.task, "type", None) \in DemoTypes) =>
        /\ ret.kind = "return"
        /\ ret.args.task["type"] = "create_listing" =>
              /\ "listings" \in DOMAIN heap[ret.args.agent].dict
              /\ heap[ret.args.agent].dict["listings"] # EmptyDict

\* C22: every result execute returns on an agent of the three registered
\* classes carries a status field that is "success" or "error".
C22_ResultsCarryStatus ==
    (/\ Did("execute")
     /\ heap[ret.args.agent].cls \in RegisteredClasses
     /\ ret.kind = "return") =>
        /\ "status" \in DOMAIN ret.value
        /\ ret.value["status"] \in {"success", "error"}

\* C23: an execute step on an agent of a registered class with a task type the
\* class does not handle leaves every agent as it was: no entry is added to a
\* metric log, no attribute of the agent changes.
C23_UnknownTypeLeavesState ==
    [][(/\ ret'.op = "execute"
        /\ heap[ret'.args.agent].cls \in RegisteredClasses
        /\ DictGet(ret'.args.task, "type", None) \notin Handles(heap[ret'.args.agent].cls)) =>
            UNCHANGED <<heap, init_log, handed, registered_agents>>]_<<heap, ret.op>>

C23_Witness ==
    /\ Did("execute")
    /\ ret.kind = "raise"
    /\ ret.exc = "ValueError"
    /\ heap[ret.args.agent].cls = "ROIOptimizationAgent"
    /\ Len(heap[ret.args.agent].dict["metrics"]) = 2
    /\ Len(init_log[ret.args.agent]) = 2

\* the one-to-one assignments of the positions 1..n to the members of s
Bijections(n, s) ==
    {f \in [1..n -> s] : \A a, b \in 1..n : a # b => f[a] # f[b]}

\* C24: with optimize_roi calls started concurrently on one ROI agent, a
\* current_roi entry of the log is always followed by the target_roi entry of
\* the same call; once every started call has ended, the log of the agent is
\* made of exactly one (current_roi, target_roi) pair per call, none lost and
\* none twice.
C24_ConcurrentPairsIntact ==
    \A i \in DOMAIN heap :
        LET log == heap[i].dict["metrics"]
            mine == {k \in DOMAIN running : running[k].agent = i}
            ended == {k \in mine : running[k].kind = "return"}
            midway == {k \in mine : running[k].kind = "pending" /\ running[k].pc # "start"}
            n == Cardinality(ended)
        IN  /\ \A p \in DOMAIN log :
                  /\ (log[p].name = "current_roi" /\ p < Len(log)) =>
                        log[p + 1].name = "target_roi"
                  /\ log[p].name = "target_roi" =>
                        p > 1 /\ log[p - 1].name = "current_roi"
            /\ midway = {} =>
                  /\ Len(log) = 2 * n
                  /\ \E f \in Bijections(n, ended) :
                        \A j \in 1..n :
                            /\ log[2 * j - 1].name = "current_roi"
                            /\ log[2 * j - 1].value = running[f[j]].locals.current_roi
                            /\ log[2 * j].name = "target_roi"
                            /\ log[2 * j].value = running[f[j]].locals.target_roi

C24_Witness ==
    /\ Len(running) = 2
    /\ \A k \in DOMAIN running : running[k].kind = "return" /\ running[k].agent = 1
    /\ running[1].task # running[2].task
    /\ Len(heap[1].dict["metrics"]) = 4
    /\ heap[1].dict["metrics"][1].value = running[2].locals.current_roi
    /\ heap[1].dict["metrics"][4].value = running[1].locals.target_roi

\* C25: with register_agent steps between the statements of a create_agent
\* call, a call whose membership test has passed finds its tag in the registry
\* at the lookup (no KeyError), and the agent a call returns is an instance of
\* the class the registry held under the tag when the lookup read it.
C25_CreateSeesWholeRegistry ==
    \A k \in DOMAIN running :
        LET frame == running[k]
            agent_type == frame.task.agent_type
        IN  /\ frame.pc = "line_32" => agent_type \in DOMAIN registered_agents
            /\ frame.exc # "KeyError"
            /\ frame.kind = "return" =>
                  /\ frame.agent \in handed
                  /\ agent_type \in DOMAIN frame.locals.registry_read
                  /\ heap[frame.agent].cls = frame.locals.registry_read[agent_type]
                  /\ init_log[frame.agent] = <<TRUE>>

C25_Witness ==
    \E k \in DOMAIN running :
        /\ running[k].kind = "return"
        /\ running[k].task.agent_type = "custom"
        /\ heap[running[k].agent].cls = "LaunchStrategistAgent"
        /\ registered_agents["custom"] = "ROIOptimizationAgent"
        /\ registered_agents["roi_optimization"] = FailingClass

\* C26: the optimization_count an ROI agent's monitor() reports under
\* roi_tracking equals the number of optimize_roi tasks the agent's execute has
\* returned from since the agent was constructed.
C26_OptimizationCountCountsTasks ==
    (/\ Did("monitor")
     /\ heap[ret.args.agent].cls = "ROIOptimizationAgent"
     /\ ret.kind = "return") =>
        ret.value["metrics"]["roi_tracking"].optimization_count = optimized[ret.args.agent]

\* C27: an analyze_data task on an analytics agent raises nothing, whatever
\* numbers roi_data and marketplace_data hold: it returns status success and
\* records exactly one data_analyzed entry.
C27_AnalyzeDataNeverRaises ==
    [][(/\ ret'.op = "execute"
        /\ heap[ret'.args.agent].cls = "AnalyticsAgent"
        /\ DictGet(ret'.args.task, "type", None) = "analyze_data") =>
            LET before == heap[ret'.args.agent].dict["metrics"]
                after == heap'[ret'.args.agent].dict["metrics"]
            IN  /\ ret'.kind = "return"
                /\ Len(after) = Len(before) + 1
                /\ after[Len(after)].name = "data_analyzed"]_<<heap, ret.kind, ret.op>>



\* C28: every get_metrics response reports an empty metric log for each of the
\* three agents, and every health_check response a count of zero log entries,
\* whatever requests and tasks came before; the registry holds the same three
\* entries throughout.
C28_RequestsReportFreshAgents ==
    /\ registered_agents = DefaultRegistry
    /\ Did("get_metrics") =>
          /\ DOMAIN ret.value = DOMAIN DefaultRegistry
          /\ \A agent_type \in DOMAIN ret.value : ret.value[agent_type].metrics = <<>>
    /\ Did("health_check") =>
          /\ DOMAIN ret.value = DOMAIN DefaultRegistry
          /\ ret.value["roi_optimization"]["metrics"]["roi_tracking"].optimization_count = 0
          /\ ret.value["marketplace_manager"]["metrics"]["marketplace"].transaction_count = 0

C28_Witness ==
    /\ Did("get_metrics")
    /\ Len(heap) = 6
    /\ heap[1].dict["metrics"] # <<>>
    /\ heap[2].dict["metrics"] # <<>>
    /\ ret.value["roi_optimization"].name = "roi_optimization_agent"

\* C29: on a launch agent none of whose tasks has been completed since
\* initialize(), a phase_transition to a valid phase returns the error result
\* "Cannot transition: current phase incomplete" and leaves current_phase as
\* it was, current_phase changing only once every task of the current phase is
\* completed; an execute_task for a task of the current phase returns and
\* marks that task in launch_phases.
C29_PhaseTransitionGuarded ==
    [][(ret'.op = "execute" /\ heap[ret'.args.agent].cls = "LaunchStrategistAgent") =>
          LET before == heap[ret'.args.agent].dict
              after == heap'[ret'.args.agent].dict
              task == ret'.args.task
              task_type == DictGet(task, "type", None)
              current_tasks == before["launch_phases"][before["current_phase"]].tasks
          IN  /\ (/\ task_type = "phase_transition"
                  /\ task["target_phase"] \in DOMAIN before["launch_phases"]
                  /\ before["launch_phases"] = LaunchInitialize(before)["launch_phases"]) =>
                     /\ ret'.kind = "return"
                     /\ ret'.value.status = "error"
                     /\ ret'.value.message = "Cannot transition: current phase incomplete"
                     /\ after["current_phase"] = before["current_phase"]
              /\ (/\ task_type = "execute_task"
                  /\ task["task_name"] \in Elements(current_tasks)) =>
                     /\ ret'.kind = "return"
                     /\ ret'.value.status = "success"
                     /\ after["launch_phases"] # before["launch_phases"]]_<<heap, ret.kind, ret.op>>

\* C30: the completed_steps of a user never hold more entries than the user's
\* flow has steps, and the completion rate monitor() reports for a flow counts
\* every user of the flow whose completed_steps have reached that number.
C30_CompletedStaysCompleted ==
    /\ \A i \in DOMAIN heap :
          heap[i].cls = "UserOnboardingAgent" =>
              \A u \in DOMAIN heap[i].dict["user_progress"] :
                  LET progress == heap[i].dict["user_progress"][u]
                  IN  Len(progress.completed_steps)
                          <= Len(heap[i].dict["onboarding_flows"][progress.flow_type].steps)
    /\ (/\ Did("monitor")
        /\ heap[ret.args.agent].cls = "UserOnboardingAgent"
        /\ ret.kind = "return") =>
            LET d == heap[ret.args.agent].dict
                progress == d["user_progress"]
                flows == d["onboarding_flows"]
            IN  \A f \in DOMAIN flows :
                    LET users == {u \in DOMAIN progress : progress[u].flow_type = f}
                        reached == {u \in users : Len(progress[u].completed_steps)
                                                      >= Len(flows[f].steps)}
                    IN  users # {} =>
                            RatEq(ret.value.completion_rates[f],
                                  Rat(Cardinality(reached), Cardinality(users)))

=============================================================================
